---------------------------- MODULE Spec2Model ----------------------------
(***************************************************************************)
(* EventReport clients (web and mobile): the analytics page with its paged *)
(* event fetcher, the event lists of the web HomePage and the mobile       *)
(* EventsListScreen, and the client-side analytics aggregation.            *)
(*                                                                         *)
(* Several specifications share the module:                                *)
(*   Spec       AnalyticsPage + eventsApi.getAllForAnalytics + the backend *)
(*   SpecHome   HomePage / EventsListScreen fetchEvents + the backend      *)
(*   SpecAgg    the time-range filter and the aggregators, as pure         *)
(*              functions applied to inputs drawn in AggInit               *)
(*   SpecStats  the top tags, the trend by date and the statistics, on     *)
(*              inputs drawn in StatInit                                   *)
(*   SpecReport the report forms ReportPage / ReportScreen + the backend   *)
(*   SpecPush   HomePage with its WebSocket                                *)
(*   SpecAuth   AuthProvider, the routes and the login / register forms    *)
(*   SpecStore  the paged fetcher against a backend collection that grows  *)
(*              (SpecStoreFair: every request is eventually answered)      *)
(*   SpecPicker the location card and map picker of the mobile             *)
(*              ReportScreen                                               *)
(***************************************************************************)
EXTENDS Integers, Sequences, FiniteSets, TLC

VARIABLES
    \* ---- web AnalyticsPage (React state) ----
    mounted,      \* the mount effect has run
    events,       \* useState<Event[]>([])
    loading,      \* useState(true)
    error,        \* useState<string | null>(null)
    timeRange,    \* useState('all')
    \* ---- eventsApi.getAllForAnalytics invocations and the network ----
    calls,        \* one record per invocation: its locals and its outcome
    reqlog,       \* every GET /events request issued, with its outcome
    op,           \* the handler that ran last
    \* ---- web HomePage / mobile EventsListScreen ----
    platform,     \* "web" (HomePage) or "mobile" (EventsListScreen)
    homeMounted,
    homeEvents,   \* useState<Event[]>([])
    homeLoading,  \* useState(true)
    refreshing,   \* mobile only: useState(false)
    alertFilter,  \* web alertFilter / mobile filterAlert
    fetches,      \* one record per fetchEvents invocation
    resolved,     \* the fetchEvents invocations in the order they settled
    \* ---- aggregation pipeline (inputs and what the page shows) ----
    aggEvents,    \* the `events` state the pipeline runs on
    aggRange,     \* the selected time range
    now,          \* the clock reading of the render, in hours since the epoch
    tz,           \* the browser's UTC offset in hours
    shown,        \* the memoised values of the last render
    \* ---- web ReportPage / mobile ReportScreen ----
    reportMounted,
    description,  \* useState('')
    tagInput,     \* useState('')
    tags,         \* useState<string[]>([])
    image,        \* useState(null): the file (web) or its uri (mobile)
    selectedLocation, \* web `position`, mobile `selectedLocation`
    reportLoading,    \* useState(false)
    reportError,  \* web `error`; on mobile the text of the last Alert.alert
    success,      \* web only: useState(false)
    handler,      \* the running handleSubmit: where it waits, what it captured
    posts,        \* every POST the form issued, with its outcome
    edits,        \* the number of edits of the form so far
    rop,          \* the handler of the form that ran last
    \* ---- the WebSocket of HomePage ----
    delivered,    \* the number of messages ws.onmessage has handled
    lastMessage,  \* message.data of the last of them
    \* ---- AuthProvider, the routes of App / AppNavigator, the login forms ----
    token,        \* localStorage 'token' (web), SecureStore 'auth_token' (mobile)
    user,         \* useState<User | null>(null): <<>> or <<the user>>
    isLoading,    \* useState(true)
    path,         \* the location of the router / the screen of the navigator
    authCalls,    \* runs of checkAuth, login, register, logout started so far
    formLoading,  \* `loading` of the mounted LoginPage / RegisterPage
    flows,        \* the runs of checkAuth, login, register, logout under way
    lastRequest,  \* the last request sent, with its Authorization header
    aop,          \* the handler of the auth model that ran last
    \* ---- the map picker of the mobile ReportScreen ----
    showMapPicker,    \* useState(false)
    loadingLocation,  \* useState(false)
    mapCenter,        \* useState({ latitude: 44.4268, longitude: 26.1025 })
    locate,           \* where the run of getCurrentLocation stands
    openedWith,       \* selectedLocation when the modal was opened
    pop,              \* the handler of the picker that ran last
    \* ---- the backend's collection behind GET /events ----
    store,        \* the ids it holds, in the order it lists them
    inserts,      \* where the backend's order puts a new event
    creations     \* the events created since the start, and the calls then under way

avars == <<mounted, events, loading, error, timeRange, calls, reqlog, op>>
hvars == <<platform, homeMounted, homeEvents, homeLoading, refreshing,
           alertFilter, fetches, resolved>>
gvars == <<aggEvents, aggRange, now, tz, shown>>
rvars == <<reportMounted, description, tagInput, tags, image, selectedLocation,
           reportLoading, reportError, success, handler, posts, edits, rop>>
\* The variables of the components added after the first three.
wvars == <<delivered, lastMessage>>
uvars == <<token, user, isLoading, path, authCalls, formLoading, flows, lastRequest, aop>>
pvars == <<showMapPicker, loadingLocation, mapCenter, locate, openedWith, pop>>
svars == <<store, inserts, creations>>
zvars == <<uvars, pvars, svars>>
xvars == <<rvars, wvars, zvars>>
vars  == <<avars, hvars, gvars, xvars>>

NULL == "null"

\* No request has been sent yet.
NoRequest == [url |-> "", authorization |-> ""]

(***************************************************************************)
(* Bounds of the model.                                                    *)
(***************************************************************************)
MaxRequests == 4     \* GET /events requests of the analytics page per behaviour
MaxFetches == 3      \* fetchEvents invocations of the event list per behaviour
MaxAggEvents == 3    \* length of the `events` array the pipeline is applied to
MaxTicks == 1        \* hours the clock advances after the first render
MaxStatEvents == 2   \* length of a short `events` array of the statistics
MaxEdits == 5        \* edits of a report form per behaviour
MaxSubmits == 2      \* POST /events requests of a report form per behaviour
MaxPushFetches == 2  \* fetchEvents invocations of HomePage while its socket is modelled
MaxPushes == 2       \* WebSocket messages delivered to HomePage per behaviour
MaxAuthCalls == 4     \* runs of checkAuth, login, register and logout per behaviour
MaxCreates == 1       \* events other clients create on the backend per behaviour
MaxSeries == 32      \* length of a long `events` array, one event per stride

(***************************************************************************)
(* Sequence helpers.                                                       *)
(***************************************************************************)
RECURSIVE SumSeq(_)
SumSeq(s) == IF s = <<>> THEN 0 ELSE Head(s) + SumSeq(Tail(s))

RECURSIVE Flatten(_)
Flatten(ss) == IF ss = <<>> THEN <<>> ELSE Head(ss) \o Flatten(Tail(ss))

(***************************************************************************)
(* The backend, seen from the client: GET /events?skip=&limit= answers     *)
(* with an array of events or fails.  The backend is not part of the       *)
(* repository; a page is any of the arrays below.  An event of the fetcher *)
(* model is its id.  Order 1 lists ids newest first; order 2 is neither    *)
(* sorted nor duplicate-free.                                              *)
(***************************************************************************)
limit == 100

PageOrders == {1, 2}

ShortSizes == {0, 37}

EventAt(order, k) == IF order = 1 THEN 1000 - k ELSE ((k * 7) % 45) + 1

ServerPage(order, skip, size) == [i \in 1..size |-> EventAt(order, skip + i)]

\* The backend reads the offset back from the decimal string of the request.
ParseDecimal(str) == CHOOSE n \in 0..(MaxRequests * limit) : ToString(n) = str

\* The sizes the backend can answer a request with: a full page, which makes
\* the client ask for the next one, only while another request fits the bound.
PageSizes ==
    ShortSizes \cup (IF Len(reqlog) < MaxRequests THEN {limit} ELSE {})

(***************************************************************************)
(* eventsApi.getAllForAnalytics                                            *)
(***************************************************************************)
ErrorMessage == "Could not load data from server"

\* const allEvents = [], let skip = 0, let hasMore = true; `before` records
\* the page's `events` when the call started.
NewCall == [st |-> "awaiting", skip |-> 0, hasMore |-> TRUE,
            allEvents |-> <<>>, before |-> events]

\* api.get('/events', {params: {skip: skip.toString(), limit: limit.toString()}})
\* The two parameters travel as the decimal strings of the numbers.
Request(c, skip) ==
    [call |-> c, skip |-> ToString(skip), limit |-> ToString(limit),
     st |-> "pending", size |-> 0, order |-> 0]

\* Variants of the loop body: skip advanced by one instead of by the page
\* size, and the page assigned instead of pushed.
AfterPageSkipOne(call, page) ==
    LET all == call.allEvents \o page IN
    IF Len(page) < limit
    THEN [call EXCEPT !.allEvents = all, !.hasMore = FALSE]
    ELSE [call EXCEPT !.allEvents = all, !.skip = call.skip + 1]

AfterPageAssigns(call, page) ==
    IF Len(page) < limit
    THEN [call EXCEPT !.allEvents = page, !.hasMore = FALSE]
    ELSE [call EXCEPT !.allEvents = page, !.skip = call.skip + limit]

\* Variant: the loop ends only on an empty page.
AfterPageStopsOnEmpty(call, page) ==
    LET all == call.allEvents \o page IN
    IF Len(page) = 0
    THEN [call EXCEPT !.allEvents = all, !.hasMore = FALSE]
    ELSE [call EXCEPT !.allEvents = all, !.skip = call.skip + limit]

\* The body of the while loop after the await: push the page, then either
\* leave the loop or advance skip.
AfterPage(call, page) ==
    LET all == call.allEvents \o page IN
    IF Len(page) < limit
    THEN [call EXCEPT !.allEvents = all, !.hasMore = FALSE]
    ELSE [call EXCEPT !.allEvents = all, !.skip = call.skip + limit]

(***************************************************************************)
(* AnalyticsPage                                                           *)
(***************************************************************************)
TimeRanges == {"7d", "30d", "90d", "all"}

\* loadEvents up to its await: setLoading(true), setError(null), and the
\* synchronous start of getAllForAnalytics with its first request.
loadEvents ==
    /\ loading' = TRUE
    /\ error' = NULL
    /\ calls' = Append(calls, NewCall)
    /\ reqlog' = Append(reqlog, Request(Len(calls) + 1, 0))
    /\ UNCHANGED <<events, timeRange>>

\* useEffect(() => { loadEvents() }, [])
Mount ==
    /\ ~mounted
    /\ Len(reqlog) < MaxRequests
    /\ mounted' = TRUE
    /\ loadEvents
    /\ op' = "mount"
    /\ UNCHANGED <<hvars, gvars, xvars>>

\* Variant: the button is rendered and enabled whatever `loading` is.
RefreshEnabledAlways == mounted

\* The Refresh button: rendered only when !loading, and disabled={loading}.
RefreshEnabled == mounted /\ ~loading

Refresh ==
    /\ RefreshEnabled
    /\ Len(reqlog) < MaxRequests
    /\ loadEvents
    /\ op' = "refresh"
    /\ UNCHANGED <<mounted, hvars, gvars, xvars>>

\* onChange={(_, v) => v && setTimeRange(v)}: the exclusive toggle group
\* hands null for the button already selected.
SetTimeRange(v) ==
    /\ mounted /\ ~loading
    /\ v # timeRange
    /\ timeRange' = v
    /\ op' = "setTimeRange"
    /\ UNCHANGED <<mounted, events, loading, error, calls, reqlog, hvars, gvars, xvars>>

\* Variant: the result is logged but never stored.
LoadResolvedDropsData(data) ==
    /\ loading' = FALSE
    /\ UNCHANGED <<events, error>>

\* What loadEvents does once getAllForAnalytics has returned `data`:
\* setEvents(data), finally setLoading(false).
LoadResolved(data) ==
    /\ events' = data
    /\ loading' = FALSE
    /\ UNCHANGED error

\* Variant: the catch branch also empties the list.
LoadRejectedClears ==
    /\ error' = ErrorMessage
    /\ loading' = FALSE
    /\ events' = <<>>

\* catch: setError(...), finally setLoading(false).
LoadRejected ==
    /\ error' = ErrorMessage
    /\ loading' = FALSE
    /\ UNCHANGED events

\* Request r is answered with a page: the loop body runs, and either the next
\* request goes out or the call returns and loadEvents continues.
PageResolves(r, size, order) ==
    /\ r \in DOMAIN reqlog
    /\ reqlog[r].st = "pending"
    /\ LET c    == reqlog[r].call
           skip == ParseDecimal(reqlog[r].skip)
           page == ServerPage(order, skip, size)
           next == AfterPage(calls[c], page)
           done == [reqlog EXCEPT ![r].st = "ok", ![r].size = size,
                                  ![r].order = order]
       IN  /\ size \in PageSizes
           /\ IF next.hasMore
              THEN /\ calls' = [calls EXCEPT ![c] = next]
                   /\ reqlog' = Append(done, Request(c, next.skip))
                   /\ UNCHANGED <<events, loading, error>>
              ELSE /\ calls' = [calls EXCEPT ![c] = [next EXCEPT !.st = "resolved"]]
                   /\ reqlog' = done
                   /\ LoadResolved(next.allEvents)
    /\ op' = "pageResolves"
    /\ UNCHANGED <<mounted, timeRange, hvars, gvars, xvars>>

\* Variant: the failed request is sent again from the catch branch.
PageFailsRetries(r) ==
    /\ r \in DOMAIN reqlog
    /\ reqlog[r].st = "pending"
    /\ Len(reqlog) < MaxRequests
    /\ reqlog' = Append([reqlog EXCEPT ![r].st = "failed"],
                        Request(reqlog[r].call, calls[reqlog[r].call].skip))
    /\ error' = ErrorMessage
    /\ UNCHANGED <<calls, loading, events>>
    /\ op' = "pageFails"
    /\ UNCHANGED <<mounted, timeRange, hvars, gvars, xvars>>

\* Request r fails (network error, timeout, HTTP error): the await throws,
\* getAllForAnalytics rejects and loadEvents lands in its catch.
PageFails(r) ==
    /\ r \in DOMAIN reqlog
    /\ reqlog[r].st = "pending"
    /\ LET c == reqlog[r].call IN
       calls' = [calls EXCEPT ![c].st = "rejected"]
    /\ reqlog' = [reqlog EXCEPT ![r].st = "failed"]
    /\ LoadRejected
    /\ op' = "pageFails"
    /\ UNCHANGED <<mounted, timeRange, hvars, gvars, xvars>>

AnalyticsInit ==
    /\ mounted = FALSE
    /\ events = <<>>
    /\ loading = TRUE
    /\ error = NULL
    /\ timeRange = "all"
    /\ calls = <<>>
    /\ reqlog = <<>>
    /\ op = "init"

(***************************************************************************)
(* Web HomePage and mobile EventsListScreen: the event list.  An event is  *)
(* a record with its id and alert_code.  GET /events?alert_code= answers   *)
(* with the matching events the backend holds at that moment, newest (the  *)
(* highest id) first; what it holds is any part of HomeUniverse.           *)
(***************************************************************************)
Platforms == {"web", "mobile"}

AlertCodes == {"GREEN", "YELLOW", "ORANGE", "RED"}

\* The Select of HomePage offers the four codes, the SegmentedButtons of
\* EventsListScreen also 'all'.
FilterChoices == IF platform = "web" THEN AlertCodes ELSE AlertCodes \cup {"all"}

HomeUniverse ==
    {[id |-> 1, alert_code |-> "RED"], [id |-> 2, alert_code |-> "GREEN"]}

\* web: if (alertFilter) params.alert_code = alertFilter;
\* mobile: filterAlert !== 'all' ? filterAlert : undefined.
\* "none" stands for a request without the alert_code parameter.
AlertParam(filter) == IF filter = "all" \/ filter = "" THEN "none" ELSE filter

Matches(e, param) == param = "none" \/ e.alert_code = param

RECURSIVE NewestFirst(_)
NewestFirst(S) ==
    IF S = {} THEN <<>>
    ELSE LET e == CHOOSE x \in S : \A y \in S : y.id <= x.id
         IN  <<e>> \o NewestFirst(S \ {e})

\* The arrays the backend can answer a request with.
Answers(param) ==
    {NewestFirst({e \in held : Matches(e, param)}) : held \in SUBSET HomeUniverse}

\* The controls (filter, refresh) can be used: HomePage renders its toolbar
\* always, EventsListScreen renders only a spinner while `loading`.
ControlsShown == homeMounted /\ (platform = "web" \/ ~homeLoading)

\* fetchEvents up to its await.  HomePage sets loading first; the closure
\* reads the filter of the render it belongs to.
fetchEvents(filter) ==
    /\ Len(fetches) < MaxFetches
    /\ fetches' = Append(fetches, [param |-> AlertParam(filter), st |-> "pending",
                                   data |-> <<>>])
    /\ homeLoading' = IF platform = "web" THEN TRUE ELSE homeLoading
    /\ UNCHANGED <<homeEvents, resolved>>

\* useEffect(() => { fetchEvents() }, [alertFilter]) on mount.
HomeMount ==
    /\ ~homeMounted
    /\ homeMounted' = TRUE
    /\ fetchEvents(alertFilter)
    /\ UNCHANGED <<platform, refreshing, alertFilter, avars, gvars, xvars>>

\* setAlertFilter(v) / setFilterAlert(v), then the effect that depends on the
\* filter runs fetchEvents of the new render.
SetAlertFilter(v) ==
    /\ ControlsShown
    /\ v \in FilterChoices
    /\ v # alertFilter
    /\ alertFilter' = v
    /\ fetchEvents(v)
    /\ UNCHANGED <<platform, homeMounted, refreshing, avars, gvars, xvars>>

\* HomePage: the Refresh IconButton, onClick={fetchEvents}.
\* EventsListScreen: onRefresh of the RefreshControl, which does not fire
\* again while it shows `refreshing`.
HomeRefresh ==
    /\ ControlsShown
    /\ platform = "mobile" => ~refreshing
    /\ refreshing' = IF platform = "mobile" THEN TRUE ELSE refreshing
    /\ fetchEvents(alertFilter)
    /\ UNCHANGED <<platform, homeMounted, alertFilter, avars, gvars, xvars>>

\* finally: setLoading(false), and on mobile setRefreshing(false).
FetchSettled ==
    /\ homeLoading' = FALSE
    /\ refreshing' = FALSE

\* Variant: a response is stored only when no later fetch has been started.
FetchResolvesIfLatest(f, data) ==
    /\ f \in DOMAIN fetches
    /\ fetches[f].st = "pending"
    /\ data \in Answers(fetches[f].param)
    /\ fetches' = [fetches EXCEPT ![f].st = "ok", ![f].data = data]
    /\ resolved' = Append(resolved, f)
    /\ homeEvents' = IF f = Len(fetches) THEN data ELSE homeEvents
    /\ FetchSettled
    /\ UNCHANGED <<platform, homeMounted, alertFilter, avars, gvars, xvars>>

\* The response to fetch f arrives: setEvents(data), then the finally block.
FetchResolves(f, data) ==
    /\ f \in DOMAIN fetches
    /\ fetches[f].st = "pending"
    /\ data \in Answers(fetches[f].param)
    /\ fetches' = [fetches EXCEPT ![f].st = "ok", ![f].data = data]
    /\ resolved' = Append(resolved, f)
    /\ homeEvents' = data
    /\ FetchSettled
    /\ UNCHANGED <<platform, homeMounted, alertFilter, avars, gvars, xvars>>

\* Fetch f fails: console.error, then the finally block.
FetchFails(f) ==
    /\ f \in DOMAIN fetches
    /\ fetches[f].st = "pending"
    /\ fetches' = [fetches EXCEPT ![f].st = "failed"]
    /\ resolved' = Append(resolved, f)
    /\ FetchSettled
    /\ UNCHANGED <<platform, homeMounted, homeEvents, alertFilter, avars, gvars, xvars>>

HomeInit ==
    /\ platform \in Platforms
    /\ homeMounted = FALSE
    /\ homeEvents = <<>>
    /\ homeLoading = TRUE
    /\ refreshing = FALSE
    /\ alertFilter = IF platform = "web" THEN "RED" ELSE "all"
    /\ fetches = <<>>
    /\ resolved = <<>>

HomeIdle == HomeInit /\ platform = "web"

(***************************************************************************)
(* The analytics pipeline of AnalyticsPage: the time-range filter and the  *)
(* aggregators.  An event is a record with id, reported_at, alert_code and *)
(* tags.  An instant is a number of hours since 1970-01-01T00:00Z; the     *)
(* Date getters read it in local time, tz hours ahead of UTC (a fixed      *)
(* offset, no daylight-saving change within the period).                   *)
(***************************************************************************)
\* new Date(reported_at) / new Date(): the local wall-clock reading.
LocalHours(t) == t + tz

\* Date.prototype.getHours
getHours(t) == LocalHours(t) % 24

\* Date.prototype.getDay: 0 is Sunday; 1970-01-01 was a Thursday.
getDay(t) == ((LocalHours(t) \div 24) + 4) % 7

\* Date.prototype.getMonth: 0 is January (proleptic Gregorian calendar).
getMonth(t) ==
    LET z   == (LocalHours(t) \div 24) + 719468
        era == z \div 146097
        doe == z - era * 146097
        yoe == (doe - doe \div 1460 + doe \div 36524 - doe \div 146096) \div 365
        doy == doe - (365 * yoe + yoe \div 4 - yoe \div 100)
        mp  == (5 * doy + 2) \div 153
    IN  (IF mp < 10 THEN mp + 3 ELSE mp - 9) - 1

\* Number.prototype.toFixed(1) of the quotient n / d (n >= 0, d > 0): the
\* decimal string with one fractional digit, the nearest one, halves up.
toFixed1(n, d) ==
    LET tenths == (2 * 10 * n + d) \div (2 * d)
    IN  ToString(tenths \div 10) \o "." \o ToString(tenths % 10)

\* hour.toString().padStart(2, '0')
padStart2(n) == IF n < 10 THEN "0" \o ToString(n) ELSE ToString(n)

daysMap == [r \in {"7d", "30d", "90d"} |->
               IF r = "7d" THEN 7 ELSE IF r = "30d" THEN 30 ELSE 90]

\* Variant: the boundary instant left out.
displayEventsStrict(evts, range, clock) ==
    IF range # "all"
    THEN LET cutoff == clock - 24 * daysMap[range]
         IN  SelectSeq(evts, LAMBDA e : e.reported_at > cutoff)
    ELSE evts

\* The displayEvents memo: cutoff = new Date(); cutoff.setDate(getDate() - N);
\* keep the events with new Date(reported_at) >= cutoff.
displayEvents(evts, range, clock) ==
    IF range # "all"
    THEN LET cutoff == clock - 24 * daysMap[range]
         IN  SelectSeq(evts, LAMBDA e : e.reported_at >= cutoff)
    ELSE evts

monthNames == <<"Jan", "Feb", "Mar", "Apr", "May", "Jun",
                "Jul", "Aug", "Sep", "Oct", "Nov", "Dec">>

\* Variant: the month index taken one too high.
processEventsByMonthOffByOne(evts) ==
    LET RECURSIVE forEach(_, _)
        forEach(monthCounts, i) ==
            IF i > Len(evts) THEN monthCounts
            ELSE LET m == getMonth(evts[i].reported_at) + 1 IN
                 IF m + 1 \in DOMAIN monthNames
                 THEN forEach([monthCounts EXCEPT ![monthNames[m + 1]] = @ + 1], i + 1)
                 ELSE forEach(monthCounts, i + 1)
        counts == forEach([m \in {monthNames[k] : k \in 1..12} |-> 0], 1)
    IN  [k \in 1..12 |-> [month |-> monthNames[k], count |-> counts[monthNames[k]]]]

processEventsByMonth(evts) ==
    LET RECURSIVE forEach(_, _)
        forEach(monthCounts, i) ==
            IF i > Len(evts) THEN monthCounts
            ELSE LET month == monthNames[getMonth(evts[i].reported_at) + 1]
                 IN  forEach([monthCounts EXCEPT ![month] = @ + 1], i + 1)
        counts == forEach([m \in {monthNames[k] : k \in 1..12} |-> 0], 1)
    IN  [k \in 1..12 |-> [month |-> monthNames[k], count |-> counts[monthNames[k]]]]

\* alertCounts[code] = (alertCounts[code] || 0) + 1 on an object whose keys
\* keep their insertion order: a known key is incremented, a new one appended.
Increment(alertCounts, code) ==
    IF \E k \in DOMAIN alertCounts : alertCounts[k].code = code
    THEN [k \in DOMAIN alertCounts |->
             IF alertCounts[k].code = code
             THEN [alertCounts[k] EXCEPT !.count = @ + 1]
             ELSE alertCounts[k]]
    ELSE Append(alertCounts, [code |-> code, count |-> 1])

RECURSIVE CountAlertCodes(_, _, _)
CountAlertCodes(alertCounts, evts, i) ==
    IF i > Len(evts) THEN alertCounts
    ELSE CountAlertCodes(Increment(alertCounts, evts[i].alert_code), evts, i + 1)

AlertEntries(alertCounts, total) ==
    [k \in DOMAIN alertCounts |->
        [name |-> alertCounts[k].code,
         value |-> alertCounts[k].count,
         percentage |-> toFixed1(alertCounts[k].count * 100, total)]]

\* Variant: the counts object starts empty, so only the codes seen appear.
processEventsByAlertCodeSparse(evts) ==
    AlertEntries(CountAlertCodes(<<>>, evts, 1), IF Len(evts) = 0 THEN 1 ELSE Len(evts))

\* Variant: the percentage taken of the largest bucket instead of the total.
processEventsByAlertCodeOfMax(evts) ==
    LET counts == CountAlertCodes(<<[code |-> "GREEN", count |-> 0],
                                    [code |-> "YELLOW", count |-> 0],
                                    [code |-> "ORANGE", count |-> 0],
                                    [code |-> "RED", count |-> 0]>>, evts, 1)
        most   == CHOOSE m \in {counts[k].count : k \in DOMAIN counts} :
                      \A k \in DOMAIN counts : counts[k].count <= m
    IN  AlertEntries(counts, IF most = 0 THEN 1 ELSE most)

processEventsByAlertCode(evts) ==
    LET counts == CountAlertCodes(<<[code |-> "GREEN", count |-> 0],
                                    [code |-> "YELLOW", count |-> 0],
                                    [code |-> "ORANGE", count |-> 0],
                                    [code |-> "RED", count |-> 0]>>, evts, 1)
        total  == IF Len(evts) = 0 THEN 1 ELSE Len(evts)     \* events.length || 1
    IN  AlertEntries(counts, total)

dayNames == <<"Sunday", "Monday", "Tuesday", "Wednesday", "Thursday",
              "Friday", "Saturday">>

processEventsByDayOfWeek(evts) ==
    LET RECURSIVE forEach(_, _)
        forEach(dayCounts, i) ==
            IF i > Len(evts) THEN dayCounts
            ELSE forEach([dayCounts EXCEPT ![getDay(evts[i].reported_at) + 1] = @ + 1],
                         i + 1)
        counts == forEach([d \in 1..7 |-> 0], 1)
    IN  [d \in 1..7 |-> [day |-> dayNames[d], count |-> counts[d]]]

processEventsByHour(evts) ==
    LET RECURSIVE forEach(_, _)
        forEach(hourCounts, i) ==
            IF i > Len(evts) THEN hourCounts
            ELSE forEach([hourCounts EXCEPT ![getHours(evts[i].reported_at) + 1] = @ + 1],
                         i + 1)
        counts == forEach([h \in 1..24 |-> 0], 1)
    IN  [h \in 1..24 |-> [hour |-> padStart2(h - 1) \o ":00", count |-> counts[h]]]

\* One render of AnalyticsPage at clock reading `now`: the memoised values.
Render(evts, range) ==
    LET d == displayEvents(evts, range, now) IN
    [at |-> now,
     displayEvents |-> d,
     eventsByMonth |-> processEventsByMonth(d),
     eventsByAlertCode |-> processEventsByAlertCode(d),
     eventsByDay |-> processEventsByDayOfWeek(d),
     eventsByHour |-> processEventsByHour(d)]

\* The inputs of the pipeline.  Noon is 2024-03-15T12:00Z, a Friday, which
\* is 14:00 on the wall clock of a browser two hours ahead of UTC.  The
\* events lie 0 h, 4 h, 6 d 23 h, 7 d, 8 d, 45 d before Noon, and at
\* 2022-12-31T23:00Z (2023-01-01 01:00 local, 439 d 13 h before Noon).
Noon == 475140

TzChoices == {2}

AggUniverse ==
    {[id |-> 1, reported_at |-> Noon,           alert_code |-> "RED",    tags |-> <<"fire">>],
     [id |-> 2, reported_at |-> Noon - 4,       alert_code |-> "GREEN",  tags |-> <<"fire", "smoke">>],
     [id |-> 3, reported_at |-> Noon - 167,     alert_code |-> "YELLOW", tags |-> <<>>],
     [id |-> 4, reported_at |-> Noon - 168,     alert_code |-> "ORANGE", tags |-> <<"flood">>],
     [id |-> 5, reported_at |-> Noon - 192,     alert_code |-> "RED",    tags |-> <<"smoke">>],
     [id |-> 6, reported_at |-> Noon - 24 * 45, alert_code |-> "GREEN",  tags |-> <<"fire">>],
     [id |-> 7, reported_at |-> Noon - 10549,   alert_code |-> "YELLOW", tags |-> <<"ice">>]}

SeqsUpTo(S, n) == UNION {[1..k -> S] : k \in 0..n}

\* Before the first render nothing is memoised.
NotRendered == [at |-> -1]

Rendered == shown.at >= 0

\* The first render after `events` was set.
AggRender ==
    /\ ~Rendered
    /\ shown' = Render(aggEvents, aggRange)
    /\ UNCHANGED <<aggEvents, aggRange, now, tz, avars, hvars, xvars>>

\* The time-range toggle: setTimeRange(v) and the render it causes.
AggSetTimeRange(v) ==
    /\ Rendered
    /\ v # aggRange
    /\ aggRange' = v
    /\ shown' = Render(aggEvents, v)
    /\ UNCHANGED <<aggEvents, now, tz, avars, hvars, xvars>>

\* Time passes; nothing is recomputed, the memo depends on events and
\* timeRange only.
Tick ==
    /\ now < Noon + MaxTicks
    /\ now' = now + 1
    /\ UNCHANGED <<aggEvents, aggRange, tz, shown, avars, hvars, xvars>>

AggIdle ==
    /\ aggEvents = <<>>
    /\ aggRange = "all"
    /\ now = Noon
    /\ tz = 0
    /\ shown = NotRendered

AggInit ==
    /\ aggEvents \in SeqsUpTo(AggUniverse, MaxAggEvents)
    /\ aggRange = "all"
    /\ now = Noon
    /\ tz \in TzChoices
    /\ shown = NotRendered

(***************************************************************************)
(* The remaining memoised values of AnalyticsPage: the top tags, the trend *)
(* by date and the statistics.  Here an event also carries the optional    *)
(* fields of the Event type, image_id and location.address, NULL when the  *)
(* backend left them out.                                                  *)
(***************************************************************************)
\* The civil date of day number `days` since 1970-01-01 (proleptic Gregorian).
CivilDate(days) ==
    LET z   == days + 719468
        era == z \div 146097
        doe == z - era * 146097
        yoe == (doe - doe \div 1460 + doe \div 36524 - doe \div 146096) \div 365
        doy == doe - (365 * yoe + yoe \div 4 - yoe \div 100)
        mp  == (5 * doy + 2) \div 153
        m   == IF mp < 10 THEN mp + 3 ELSE mp - 9
    IN  [y |-> yoe + era * 400 + (IF m <= 2 THEN 1 ELSE 0),
         m |-> m,
         d |-> doy - (153 * mp + 2) \div 5 + 1]

\* new Date(reported_at).toISOString().split('T')[0]: the string YYYY-MM-DD
\* of the UTC date, kept as its three numbers.
toISODate(t) == CivilDate(t \div 24)

\* a.localeCompare(b) of two YYYY-MM-DD strings (four-digit years): the
\* characters compare as the numbers do, year first.
localeCompare(a, b) ==
    IF a.y # b.y THEN (IF a.y < b.y THEN -1 ELSE 1)
    ELSE IF a.m # b.m THEN (IF a.m < b.m THEN -1 ELSE 1)
    ELSE IF a.d # b.d THEN (IF a.d < b.d THEN -1 ELSE 1)
    ELSE 0

\* new Date('YYYY-MM-DD'): midnight UTC at the start of that date.
DateParse(date) ==
    LET y   == IF date.m <= 2 THEN date.y - 1 ELSE date.y
        era == y \div 400
        yoe == y - era * 400
        mp  == IF date.m > 2 THEN date.m - 3 ELSE date.m + 9
        doy == (153 * mp + 2) \div 5 + date.d - 1
        doe == yoe * 365 + yoe \div 4 - yoe \div 100 + doy
    IN  24 * (era * 146097 + doe - 719468)

\* toLocaleDateString('en-US', { day: '2-digit', month: 'short' }): the
\* local date of the instant, as "Mar 15".
toLocaleDateString(t) ==
    LET c == CivilDate(LocalHours(t) \div 24)
    IN  monthNames[c.m] \o " " \o padStart2(c.d)

\* Array.prototype.sort with a comparator: a stable sort. cmp[i, j] is what
\* the comparator returns for entries[i] and entries[j].
Sorted(entries, cmp) ==
    LET insert(order, i) ==
            LET p == Cardinality({k \in DOMAIN order : cmp[order[k], i] <= 0})
            IN  SubSeq(order, 1, p) \o <<i>> \o SubSeq(order, p + 1, Len(order))
        RECURSIVE upto(_)
        upto(i) == IF i = 0 THEN <<>> ELSE insert(upto(i - 1), i)
        order == upto(Len(entries))
    IN  [k \in DOMAIN entries |-> entries[order[k]]]

\* The tagCounts object after the two nested forEach loops: one entry per
\* tag, in the order the tags were first met.
RECURSIVE CountTags(_, _, _)
CountTags(tagCounts, list, i) ==
    IF i > Len(list) THEN tagCounts
    ELSE CountTags(Increment(tagCounts, list[i]), list, i + 1)

\* Variant: the entries cut to ten before they are sorted.
processTopTagsSliceFirst(evts) ==
    LET tagCounts == CountTags(<<>>, Flatten([i \in DOMAIN evts |-> evts[i].tags]), 1)
        cut       == SubSeq(tagCounts, 1, IF Len(tagCounts) < 10 THEN Len(tagCounts) ELSE 10)
        top       == Sorted(cut, [a, b \in DOMAIN cut |-> cut[b].count - cut[a].count])
    IN  [k \in DOMAIN top |-> [tag |-> top[k].code, count |-> top[k].count]]

processTopTags(evts) ==
    LET tagCounts == CountTags(<<>>, Flatten([i \in DOMAIN evts |-> evts[i].tags]), 1)
        sorted    == Sorted(tagCounts,
                            [a, b \in DOMAIN tagCounts |-> tagCounts[b].count - tagCounts[a].count])
        top       == SubSeq(sorted, 1, IF Len(sorted) < 10 THEN Len(sorted) ELSE 10)
    IN  [k \in DOMAIN top |-> [tag |-> top[k].code, count |-> top[k].count]]

\* The dateGroups object after the forEach loop.
RECURSIVE CountDates(_, _, _)
CountDates(dateGroups, evts, i) ==
    IF i > Len(evts) THEN dateGroups
    ELSE CountDates(Increment(dateGroups, toISODate(evts[i].reported_at)), evts, i + 1)

\* Variant: slice(0, 30), the first thirty buckets instead of the last.
processEventsTrendOldest(evts) ==
    LET groups == CountDates(<<>>, evts, 1)
        sorted == Sorted(groups, [a, b \in DOMAIN groups |->
                                     localeCompare(groups[a].code, groups[b].code)])
        last   == SubSeq(sorted, 1, IF Len(sorted) < 30 THEN Len(sorted) ELSE 30)
    IN  [k \in DOMAIN last |->
            [date |-> toLocaleDateString(DateParse(last[k].code)),
             count |-> last[k].count]]

processEventsTrend(evts) ==
    LET groups == CountDates(<<>>, evts, 1)
        sorted == Sorted(groups, [a, b \in DOMAIN groups |->
                                     localeCompare(groups[a].code, groups[b].code)])
        last   == SubSeq(sorted, IF Len(sorted) > 30 THEN Len(sorted) - 29 ELSE 1,
                         Len(sorted))                              \* slice(-30)
    IN  [k \in DOMAIN last |->
            [date |-> toLocaleDateString(DateParse(last[k].code)),
             count |-> last[k].count]]

\* Number.prototype.toFixed(1) of the quotient n / d of either sign (d > 0):
\* a negative number is rounded as its magnitude and keeps the sign.
toFixed1Signed(n, d) ==
    IF n < 0 THEN "-" \o toFixed1(0 - n, d) ELSE toFixed1(n, d)

\* Variant: the span rounded down.
daysDiffFloor(evts) ==
    LET dates   == {evts[i].reported_at : i \in DOMAIN evts}
        minDate == CHOOSE t \in dates : \A u \in dates : t <= u
        maxDate == CHOOSE t \in dates : \A u \in dates : u <= t
        whole   == (maxDate - minDate) \div 24
    IN  IF whole < 1 THEN 1 ELSE whole

\* Math.max(1, Math.ceil((maxDate - minDate) / (1000 * 60 * 60 * 24)))
daysDiff(evts) ==
    LET dates   == {evts[i].reported_at : i \in DOMAIN evts}
        minDate == CHOOSE t \in dates : \A u \in dates : t <= u
        maxDate == CHOOSE t \in dates : \A u \in dates : u <= t
        ceil    == (maxDate - minDate + 23) \div 24
    IN  IF ceil < 1 THEN 1 ELSE ceil

\* The first filter pass; every callback builds weekAgo from a clock reading
\* of its own, `clock` is the reading of this pass.
lastWeek(evts, clock) ==
    LET weekAgo == clock - 24 * 7
    IN  Len(SelectSeq(evts, LAMBDA e : e.reported_at >= weekAgo))

\* The second filter pass, at its own clock reading.
prevWeek(evts, clock) ==
    LET weekAgo     == clock - 24 * 7
        twoWeeksAgo == clock - 24 * 14
    IN  Len(SelectSeq(evts, LAMBDA e : /\ e.reported_at >= twoWeeksAgo
                                       /\ e.reported_at < weekAgo))

\* Variant: only RED counts as urgent.
urgentCountRedOnly(evts) ==
    Len(SelectSeq(evts, LAMBDA e : e.alert_code = "RED"))

urgentCount(evts) ==
    Len(SelectSeq(evts, LAMBDA e : e.alert_code = "RED" \/ e.alert_code = "ORANGE"))

\* Variant: no early return for the empty array.  Math.min() is Infinity and
\* Math.max() is -Infinity, so daysDiff is 1, and 0 / 0 is NaN.
calculateStatisticsUnguarded(evts, clock1, clock2) ==
    IF Len(evts) = 0
    THEN [total |-> 0, avgPerDay |-> "0.0", trend |-> "0.0", urgentPercent |-> "NaN"]
    ELSE LET last == lastWeek(evts, clock1)
             prev == prevWeek(evts, clock2)
         IN  [total |-> Len(evts),
              avgPerDay |-> toFixed1(Len(evts), daysDiff(evts)),
              trend |-> IF prev > 0 THEN toFixed1Signed((last - prev) * 100, prev)
                        ELSE "0.0",
              urgentPercent |-> toFixed1(urgentCount(evts) * 100, Len(evts))]

\* calculateStatistics, the first filter pass reading the clock at clock1
\* and the second at clock2.  The three rates are what the page prints: the
\* number 0 of the early return prints as "0", the others are the strings
\* toFixed(1) gives.
calculateStatistics(evts, clock1, clock2) ==
    IF Len(evts) = 0
    THEN [total |-> 0, avgPerDay |-> "0", trend |-> "0", urgentPercent |-> "0"]
    ELSE LET last == lastWeek(evts, clock1)
             prev == prevWeek(evts, clock2)
         IN  [total |-> Len(evts),
              avgPerDay |-> toFixed1(Len(evts), daysDiff(evts)),
              trend |-> IF prev > 0 THEN toFixed1Signed((last - prev) * 100, prev)
                        ELSE "0.0",
              urgentPercent |-> toFixed1(urgentCount(evts) * 100, Len(evts))]

\* Variant: the statistics computed from every fetched event, not from the
\* events the time range keeps.
RenderStatsOfAllEvents(evts, range, drift) ==
    LET d == displayEvents(evts, range, now) IN
    Render(evts, range) @@
    [until |-> now + drift,
     topTags |-> processTopTags(d),
     eventsTrend |-> processEventsTrend(d),
     stats |-> calculateStatistics(evts, now, now + drift)]

\* One render of AnalyticsPage, all seven memoised values: the filter and
\* the first pass read the clock at `now`, the second pass `drift` later.
RenderStats(evts, range, drift) ==
    LET d == displayEvents(evts, range, now) IN
    Render(evts, range) @@
    [until |-> now + drift,
     topTags |-> processTopTags(d),
     eventsTrend |-> processEventsTrend(d),
     stats |-> calculateStatistics(d, now, now + drift)]

TagNames == <<"fire", "smoke", "flood", "ice", "storm", "crash", "fog",
              "wind", "heat", "snow", "hail", "mud", "dust">>

\* Short event arrays are drawn from these events: at Noon, 14 h before
\* (22:00Z of the day before, already the 15th on the local clock), exactly
\* 7 d, 8 d, exactly 14 d and 14 d 1 h before Noon; with and without
\* image_id and location.address; one with no tag, one with a tag twice.
StatUniverse ==
    {[id |-> 1, reported_at |-> Noon, alert_code |-> "RED",
      tags |-> SubSeq(TagNames, 1, 10),
      image_id |-> "img-1", location |-> [address |-> "Main St 1"]],
     [id |-> 2, reported_at |-> Noon - 14, alert_code |-> "GREEN",
      tags |-> <<>>,
      image_id |-> NULL, location |-> [address |-> NULL]],
     [id |-> 3, reported_at |-> Noon - 24 * 7, alert_code |-> "ORANGE",
      tags |-> SubSeq(TagNames, 5, 11),
      image_id |-> NULL, location |-> [address |-> "Main St 3"]],
     [id |-> 4, reported_at |-> Noon - 24 * 8, alert_code |-> "GREEN",
      tags |-> <<"mud", "fire", "mud">>,
      image_id |-> "img-4", location |-> [address |-> NULL]],
     [id |-> 5, reported_at |-> Noon - 24 * 14, alert_code |-> "YELLOW",
      tags |-> <<"mud", "dust">>,
      image_id |-> NULL, location |-> [address |-> NULL]],
     [id |-> 6, reported_at |-> Noon - 24 * 14 - 1, alert_code |-> "RED",
      tags |-> <<"smoke">>,
      image_id |-> NULL, location |-> [address |-> NULL]]}

Strides == {12, 24}

\* Long event arrays: n events `stride` hours apart going back from Noon,
\* newest first (as the backend sorts) or oldest first.
Series(n, stride, newestFirst) ==
    [i \in 1..n |->
        LET j == IF newestFirst THEN i ELSE n + 1 - i IN
        [id |-> 100 + j, reported_at |-> Noon - stride * (j - 1),
         alert_code |-> <<"GREEN", "YELLOW", "ORANGE", "RED">>[(j % 4) + 1],
         tags |-> <<TagNames[(j % 13) + 1]>>,
         image_id |-> NULL, location |-> [address |-> NULL]]]

\* The first render after `events` was set.
StatsRender(drift) ==
    /\ ~Rendered
    /\ now + drift <= Noon + MaxTicks
    /\ shown' = RenderStats(aggEvents, aggRange, drift)
    /\ now' = now + drift
    /\ UNCHANGED <<aggEvents, aggRange, tz, avars, hvars, xvars>>

\* The time-range toggle: setTimeRange(v) and the render it causes.
StatsSetTimeRange(v, drift) ==
    /\ Rendered
    /\ v # aggRange
    /\ now + drift <= Noon + MaxTicks
    /\ aggRange' = v
    /\ shown' = RenderStats(aggEvents, v, drift)
    /\ now' = now + drift
    /\ UNCHANGED <<aggEvents, tz, avars, hvars, xvars>>

StatInit ==
    /\ aggEvents \in SeqsUpTo(StatUniverse, MaxStatEvents)
                     \cup {Series(n, stride, newestFirst) :
                              n \in 0..MaxSeries, stride \in Strides,
                              newestFirst \in BOOLEAN}
    /\ aggRange = "all"
    /\ now = Noon
    /\ tz \in TzChoices
    /\ shown = NotRendered

(***************************************************************************)
(* The report forms: web ReportPage and mobile ReportScreen.  A text is a  *)
(* sequence of characters.  A point is <<latitude, longitude>>.            *)
(***************************************************************************)
Whitespace == {" "}

\* String.prototype.trim: the text without its leading and trailing
\* whitespace.
RECURSIVE trimStart(_)
trimStart(s) ==
    IF s # <<>> /\ Head(s) \in Whitespace THEN trimStart(Tail(s)) ELSE s

RECURSIVE trimEnd(_)
trimEnd(s) ==
    IF s # <<>> /\ s[Len(s)] \in Whitespace
    THEN trimEnd(SubSeq(s, 1, Len(s) - 1)) ELSE s

trim(s) == trimEnd(trimStart(s))

\* tags.includes(t)
includes(list, t) == \E k \in DOMAIN list : list[k] = t

\* What the user may type into the tag field and into the description.
TagInputs == {<<>>, <<" ">>, <<"a">>, <<" ", "a", " ">>, <<"b">>}

Descriptions == {<<>>, <<" ">>, <<"x">>}

Files == {"photo.jpg"}

\* The initial `position` of the web form and the initial mapCenter of the
\* mobile form (44.4268, 26.1025), and another point of the map; in units
\* of 0.0001 degree.
DefaultPoint == <<444268, 261025>>

Points == {DefaultPoint, <<-337000, 1512000>>}

\* No submission is running.
Idle == [pc |-> "idle", image |-> NULL, req |-> 0]

\* The requests of the form so far that are POST /events.
Creates == SelectSeq(posts, LAMBDA q : q.kind = "create")

\* description / tagInput edited (onChange, onChangeText).
SetDescription(v) ==
    /\ reportMounted /\ edits < MaxEdits
    /\ v # description
    /\ description' = v
    /\ edits' = edits + 1
    /\ rop' = "setDescription"
    /\ UNCHANGED <<reportMounted, tagInput, tags, image, selectedLocation,
                   reportLoading, reportError, success, handler, posts>>
    /\ UNCHANGED <<platform, homeMounted, homeEvents, homeLoading, refreshing,
                   alertFilter, fetches, resolved, avars, gvars, wvars, zvars>>

SetTagInput(v) ==
    /\ reportMounted /\ edits < MaxEdits
    /\ v # tagInput
    /\ tagInput' = v
    /\ edits' = edits + 1
    /\ rop' = "setTagInput"
    /\ UNCHANGED <<reportMounted, description, tags, image, selectedLocation,
                   reportLoading, reportError, success, handler, posts>>
    /\ UNCHANGED <<platform, homeMounted, homeEvents, homeLoading, refreshing,
                   alertFilter, fetches, resolved, avars, gvars, wvars, zvars>>

\* Variant: the raw input is compared and stored, trimmed only for the
\* emptiness test.
addTagUntrimmed(list, input) ==
    IF trim(input) # <<>> /\ ~includes(list, input)
    THEN [tags |-> Append(list, input), tagInput |-> <<>>]
    ELSE [tags |-> list, tagInput |-> input]

\* addTag: the state it leaves, from `tags` and `tagInput`.
addTag(list, input) ==
    IF trim(input) # <<>> /\ ~includes(list, trim(input))
    THEN [tags |-> Append(list, trim(input)), tagInput |-> <<>>]
    ELSE [tags |-> list, tagInput |-> input]

\* The + / Add button, or Enter in the tag field.
AddTag ==
    /\ reportMounted /\ edits < MaxEdits
    /\ tags' = addTag(tags, tagInput).tags
    /\ tagInput' = addTag(tags, tagInput).tagInput
    /\ edits' = edits + 1
    /\ rop' = "addTag"
    /\ UNCHANGED <<reportMounted, description, image, selectedLocation,
                   reportLoading, reportError, success, handler, posts>>
    /\ UNCHANGED <<platform, homeMounted, homeEvents, homeLoading, refreshing,
                   alertFilter, fetches, resolved, avars, gvars, wvars, zvars>>

\* removeTag(tag), from the chip of a tag in the list.
removeTag(list, tag) == SelectSeq(list, LAMBDA t : t # tag)

RemoveTag(tag) ==
    /\ reportMounted /\ edits < MaxEdits
    /\ includes(tags, tag)
    /\ tags' = removeTag(tags, tag)
    /\ edits' = edits + 1
    /\ rop' = "removeTag"
    /\ UNCHANGED <<reportMounted, description, tagInput, image, selectedLocation,
                   reportLoading, reportError, success, handler, posts>>
    /\ UNCHANGED <<platform, homeMounted, homeEvents, homeLoading, refreshing,
                   alertFilter, fetches, resolved, avars, gvars, wvars, zvars>>

\* handleImageChange / pickImage with a file chosen, and the remove button.
SetImage(f) ==
    /\ reportMounted /\ edits < MaxEdits
    /\ f # image
    /\ image' = f
    /\ edits' = edits + 1
    /\ rop' = "setImage"
    /\ UNCHANGED <<reportMounted, description, tagInput, tags, selectedLocation,
                   reportLoading, reportError, success, handler, posts>>
    /\ UNCHANGED <<platform, homeMounted, homeEvents, homeLoading, refreshing,
                   alertFilter, fetches, resolved, avars, gvars, wvars, zvars>>

\* A click on the map: LocationPicker's setPosition([lat, lng]) on the web,
\* handleMapPress(latitude, longitude) on mobile.
MapPress(p) ==
    /\ reportMounted /\ edits < MaxEdits
    /\ p # selectedLocation
    /\ selectedLocation' = p
    /\ edits' = edits + 1
    /\ rop' = "mapPress"
    /\ UNCHANGED <<reportMounted, description, tagInput, tags, image,
                   reportLoading, reportError, success, handler, posts>>
    /\ UNCHANGED <<platform, homeMounted, homeEvents, homeLoading, refreshing,
                   alertFilter, fetches, resolved, avars, gvars, wvars, zvars>>

\* Variant: the point sent as it is held, latitude first.
coordinatesLatFirst(p) == <<p[1], p[2]>>

\* location.coordinates of the request: [position[1], position[0]] on the
\* web, [selectedLocation.longitude, selectedLocation.latitude] on mobile.
coordinates(p) == <<p[2], p[1]>>

\* The Submit button is enabled.
SubmitEnabled ==
    /\ reportMounted
    /\ ~reportLoading
    /\ platform = "mobile" => selectedLocation # NULL

\* handleSubmit up to its first await.
Submit ==
    /\ SubmitEnabled
    /\ rop' = "submit"
    /\ IF trim(description) = <<>>
       THEN /\ reportError' = "Description is required"
            /\ UNCHANGED <<reportLoading, handler, posts>>
       ELSE IF selectedLocation = NULL
       THEN /\ reportError' = "Please select a location for the event"
            /\ UNCHANGED <<reportLoading, handler, posts>>
       ELSE /\ Len(Creates) < MaxSubmits
            /\ reportLoading' = TRUE
            /\ reportError' = IF platform = "web" THEN "" ELSE reportError
            /\ posts' = Append(posts,
                   [kind |-> "create", st |-> "pending",
                    coordinates |-> coordinates(selectedLocation),
                    tags |-> tags, eventId |-> 0, file |-> NULL])
            /\ handler' = [pc |-> "create", image |-> image, req |-> Len(posts) + 1]
    /\ UNCHANGED <<reportMounted, description, tagInput, tags, image,
                   selectedLocation, success, edits>>
    /\ UNCHANGED <<platform, homeMounted, homeEvents, homeLoading, refreshing,
                   alertFilter, fetches, resolved, avars, gvars, wvars, zvars>>

\* The handler after its last await resolved: setSuccess(true) and the
\* timer on the web; the alert and the reset of the form on mobile; finally
\* setLoading(false).
Succeeded ==
    /\ reportLoading' = FALSE
    /\ handler' = Idle
    /\ IF platform = "web"
       THEN /\ success' = TRUE
            /\ UNCHANGED <<description, tags, image, reportError>>
       ELSE /\ reportError' = "Event reported successfully!"
            /\ description' = <<>>
            /\ tags' = <<>>
            /\ image' = NULL
            /\ UNCHANGED success

\* The catch block, and finally setLoading(false).
Failed ==
    /\ reportLoading' = FALSE
    /\ handler' = Idle
    /\ reportError' = IF platform = "web" THEN "Error submitting report"
                      ELSE "Failed to report event"
    /\ UNCHANGED <<description, tags, image, success>>

\* Variant: the upload names the event of the form's first request.
uploadEventIdOfFirst(req) == 1

\* event.id of the event the create call `req` returned.
uploadEventId(req) == req

\* POST /events answers 2xx; the backend gives the event an id of its own
\* (here the number of the request).
CreateResolves ==
    /\ handler.pc = "create"
    /\ rop' = "createResolves"
    /\ IF handler.image # NULL
       THEN /\ posts' = Append([posts EXCEPT ![handler.req].st = "ok",
                                             ![handler.req].eventId = handler.req],
                   [kind |-> "upload", st |-> "pending",
                    coordinates |-> <<>>, tags |-> <<>>,
                    eventId |-> uploadEventId(handler.req), file |-> handler.image])
            /\ handler' = [handler EXCEPT !.pc = "upload", !.req = Len(posts) + 1]
            /\ UNCHANGED <<reportLoading, reportError, success, description,
                           tags, image>>
       ELSE /\ posts' = [posts EXCEPT ![handler.req].st = "ok",
                                      ![handler.req].eventId = handler.req]
            /\ Succeeded
    /\ UNCHANGED <<reportMounted, tagInput, selectedLocation, edits>>
    /\ UNCHANGED <<platform, homeMounted, homeEvents, homeLoading, refreshing,
                   alertFilter, fetches, resolved, avars, gvars, wvars, zvars>>

\* Variant: the upload is attempted although the create failed.
CreateFailsThenUploads ==
    /\ handler.pc = "create"
    /\ rop' = "createFails"
    /\ posts' = Append([posts EXCEPT ![handler.req].st = "failed"],
           [kind |-> "upload", st |-> "pending", coordinates |-> <<>>,
            tags |-> <<>>, eventId |-> 0, file |-> handler.image])
    /\ handler' = [handler EXCEPT !.pc = "upload", !.req = Len(posts) + 1]
    /\ UNCHANGED <<reportLoading, reportError, success, description, tags, image>>
    /\ UNCHANGED <<reportMounted, tagInput, selectedLocation, edits>>
    /\ UNCHANGED <<platform, homeMounted, homeEvents, homeLoading, refreshing,
                   alertFilter, fetches, resolved, avars, gvars, wvars, zvars>>

\* POST /events fails (network error or a non-2xx answer).
CreateFails ==
    /\ handler.pc = "create"
    /\ rop' = "createFails"
    /\ posts' = [posts EXCEPT ![handler.req].st = "failed"]
    /\ Failed
    /\ UNCHANGED <<reportMounted, tagInput, selectedLocation, edits>>
    /\ UNCHANGED <<platform, homeMounted, homeEvents, homeLoading, refreshing,
                   alertFilter, fetches, resolved, avars, gvars, wvars, zvars>>

\* POST /events/{id}/image answers 2xx.
UploadResolves ==
    /\ handler.pc = "upload"
    /\ rop' = "uploadResolves"
    /\ posts' = [posts EXCEPT ![handler.req].st = "ok"]
    /\ Succeeded
    /\ UNCHANGED <<reportMounted, tagInput, selectedLocation, edits>>
    /\ UNCHANGED <<platform, homeMounted, homeEvents, homeLoading, refreshing,
                   alertFilter, fetches, resolved, avars, gvars, wvars, zvars>>

\* POST /events/{id}/image fails.
UploadFails ==
    /\ handler.pc = "upload"
    /\ rop' = "uploadFails"
    /\ posts' = [posts EXCEPT ![handler.req].st = "failed"]
    /\ Failed
    /\ UNCHANGED <<reportMounted, tagInput, selectedLocation, edits>>
    /\ UNCHANGED <<platform, homeMounted, homeEvents, homeLoading, refreshing,
                   alertFilter, fetches, resolved, avars, gvars, wvars, zvars>>

\* Web only: the timer set on success fires, navigate('/') unmounts the form.
Navigate ==
    /\ platform = "web"
    /\ reportMounted /\ success
    /\ reportMounted' = FALSE
    /\ rop' = "navigate"
    /\ UNCHANGED <<description, tagInput, tags, image, selectedLocation,
                   reportLoading, reportError, success, handler, posts, edits>>
    /\ UNCHANGED <<platform, homeMounted, homeEvents, homeLoading, refreshing,
                   alertFilter, fetches, resolved, avars, gvars, wvars, zvars>>

\* The events the backend holds: one per create request it accepted, with
\* the location it was sent.
Stored ==
    LET ok == SelectSeq(posts, LAMBDA q : q.kind = "create" /\ q.st = "ok")
    IN  [k \in DOMAIN ok |->
            [id |-> ok[k].eventId,
             location |-> [type |-> "Point", coordinates |-> ok[k].coordinates],
             tags |-> ok[k].tags]]

\* The marker of an event: web HomePage and EventDetailPage
\* position={[coordinates[1], coordinates[0]]}, mobile MapScreen
\* latitude: coordinates[1], longitude: coordinates[0].
Marker(event) ==
    [latitude |-> event.location.coordinates[2],
     longitude |-> event.location.coordinates[1]]

\* The form as mounted: on the web the position is the default point, on
\* mobile no location is selected.
ReportIdle ==
    /\ reportMounted = FALSE
    /\ description = <<>>
    /\ tagInput = <<>>
    /\ tags = <<>>
    /\ image = NULL
    /\ selectedLocation = NULL
    /\ reportLoading = FALSE
    /\ reportError = ""
    /\ success = FALSE
    /\ handler = Idle
    /\ posts = <<>>
    /\ edits = 0
    /\ rop = "none"

ReportInit ==
    /\ reportMounted = TRUE
    /\ description = <<>>
    /\ tagInput = <<>>
    /\ tags = <<>>
    /\ image = NULL
    /\ selectedLocation = IF platform = "web" THEN DefaultPoint ELSE NULL
    /\ reportLoading = FALSE
    /\ reportError = ""
    /\ success = FALSE
    /\ handler = Idle
    /\ posts = <<>>
    /\ edits = 0
    /\ rop = "none"

(***************************************************************************)
(* The push channel of HomePage: createEventsWebSocket and the effect that *)
(* opens it.  A message is the text of message.data.                       *)
(***************************************************************************)
\* The texts the socket may deliver.
Messages ==
    {"not json",
     "null",
     "{\"type\":\"new_event\"}",
     "{\"type\":\"event_deleted\",\"event\":{\"id\":3,\"alert_code\":\"ORANGE\"}}",
     "{\"type\":\"new_event\",\"event\":{\"id\":3,\"alert_code\":\"ORANGE\"}}",
     "{\"type\":\"new_event\",\"event\":{\"id\":1,\"alert_code\":\"RED\"}}"}

\* JSON.parse of these texts: it throws a SyntaxError, or gives null, or an
\* object, of which `type` and `event` are read ("undefined" and the empty
\* sequence when the property is missing).
JSONparse(text) ==
    CASE text = "null" ->
           [threw |-> FALSE, isNull |-> TRUE, type |-> "undefined", event |-> <<>>]
      [] text = "{\"type\":\"new_event\"}" ->
           [threw |-> FALSE, isNull |-> FALSE, type |-> "new_event", event |-> <<>>]
      [] text = "{\"type\":\"event_deleted\",\"event\":{\"id\":3,\"alert_code\":\"ORANGE\"}}" ->
           [threw |-> FALSE, isNull |-> FALSE, type |-> "event_deleted",
            event |-> <<[id |-> 3, alert_code |-> "ORANGE"]>>]
      [] text = "{\"type\":\"new_event\",\"event\":{\"id\":3,\"alert_code\":\"ORANGE\"}}" ->
           [threw |-> FALSE, isNull |-> FALSE, type |-> "new_event",
            event |-> <<[id |-> 3, alert_code |-> "ORANGE"]>>]
      [] text = "{\"type\":\"new_event\",\"event\":{\"id\":1,\"alert_code\":\"RED\"}}" ->
           [threw |-> FALSE, isNull |-> FALSE, type |-> "new_event",
            event |-> <<[id |-> 1, alert_code |-> "RED"]>>]
      [] OTHER ->
           [threw |-> TRUE, isNull |-> FALSE, type |-> "undefined", event |-> <<>>]

\* Variant: every message that carries an event is passed on, whatever its
\* type.
onmessageAnyType(text) ==
    LET data == JSONparse(text) IN
    IF data.threw \/ data.isNull THEN <<>>
    ELSE data.event

\* ws.onmessage: the events it hands to onNewEvent, none or one.  A
\* SyntaxError of JSON.parse and the TypeError of reading null.type are
\* caught and logged.
onmessage(text) ==
    LET data == JSONparse(text) IN
    IF data.threw \/ data.isNull THEN <<>>
    ELSE IF data.type = "new_event" /\ data.event # <<>> THEN data.event
    ELSE <<>>

\* A message arrives on the socket the mount effect of HomePage opened;
\* onNewEvent is setEvents(prevEvents => [newEvent, ...prevEvents]).
WsMessage(text) ==
    /\ platform = "web" /\ homeMounted
    /\ delivered < MaxPushes
    /\ delivered' = delivered + 1
    /\ lastMessage' = text
    /\ homeEvents' = onmessage(text) \o homeEvents
    /\ UNCHANGED <<platform, homeMounted, homeLoading, refreshing, alertFilter,
                   fetches, resolved, avars, gvars, rvars, zvars>>

PushIdle ==
    /\ delivered = 0
    /\ lastMessage = ""

(***************************************************************************)
(* Authentication and routing: AuthProvider (web and mobile), the routes   *)
(* of the web App, the stacks of the mobile AppNavigator, and the forms    *)
(* that call login and register.  The backend answers POST /auth/login     *)
(* with an access token or fails, and GET /auth/me with a user or fails;   *)
(* it answers GET /auth/me with a user only if the request carried an      *)
(* Authorization header.                                                   *)
(***************************************************************************)
Tokens == {"jwtNew"}

\* What persistent storage may hold when the app starts.
StoredTokens == {NULL, "jwtOld"}

Users == {[id |-> 1, role |-> "user"], [id |-> 2, role |-> "admin"]}

Paths == {"/login", "/register", "/", "/report", "/event", "/analytics"}

Screens == {"Login", "Register", "Main", "EventDetail"}

\* The request interceptor: config.headers.Authorization = `Bearer ${token}`
\* if storage holds a token; "" stands for no header.
Authorization(t) == IF t # NULL THEN "Bearer " \o t ELSE ""

\* isAuthenticated: !!user
isAuthenticated(u) == u # <<>>

\* const isAdmin = user?.role === 'admin'
isAdmin(u) == u # <<>> /\ u[1].role = "admin"

Page(name) == [kind |-> "page", name |-> name]

NavigateTo(p) == [kind |-> "navigate", name |-> p]

\* Variant: /analytics guarded like the other protected routes.
RoutesAnalyticsOpen(p, u) ==
    CASE p = "/login"     -> IF ~isAuthenticated(u) THEN Page("LoginPage") ELSE NavigateTo("/")
      [] p = "/register"  -> IF ~isAuthenticated(u) THEN Page("RegisterPage") ELSE NavigateTo("/")
      [] p = "/"          -> IF isAuthenticated(u) THEN Page("HomePage") ELSE NavigateTo("/login")
      [] p = "/report"    -> IF isAuthenticated(u) THEN Page("ReportPage") ELSE NavigateTo("/login")
      [] p = "/event"     -> IF isAuthenticated(u) THEN Page("EventDetailPage") ELSE NavigateTo("/login")
      [] p = "/analytics" -> IF isAuthenticated(u) THEN Page("AnalyticsPage") ELSE NavigateTo("/login")

\* <Routes> of the web App: the element of the route that matches p.
Routes(p, u) ==
    CASE p = "/login"     -> IF ~isAuthenticated(u) THEN Page("LoginPage") ELSE NavigateTo("/")
      [] p = "/register"  -> IF ~isAuthenticated(u) THEN Page("RegisterPage") ELSE NavigateTo("/")
      [] p = "/"          -> IF isAuthenticated(u) THEN Page("HomePage") ELSE NavigateTo("/login")
      [] p = "/report"    -> IF isAuthenticated(u) THEN Page("ReportPage") ELSE NavigateTo("/login")
      [] p = "/event"     -> IF isAuthenticated(u) THEN Page("EventDetailPage") ELSE NavigateTo("/login")
      [] p = "/analytics" -> IF isAuthenticated(u) /\ isAdmin(u) THEN Page("AnalyticsPage")
                             ELSE IF isAuthenticated(u) THEN NavigateTo("/")
                             ELSE NavigateTo("/login")

\* The screens of the stack AppNavigator mounts, its initial screen first.
Stack(u) == IF isAuthenticated(u) THEN <<"Main", "EventDetail">> ELSE <<"Login", "Register">>

\* Where the router (web) or the navigator (mobile) ends up when asked for p
\* while the user is u: a <Navigate> is followed, a screen that is not in
\* the mounted stack gives way to the stack's initial screen.
RECURSIVE Location(_, _)
Location(p, u) ==
    IF platform = "web"
    THEN IF Routes(p, u).kind = "navigate" THEN Location(Routes(p, u).name, u) ELSE p
    ELSE IF \E i \in DOMAIN Stack(u) : Stack(u)[i] = p THEN p ELSE Stack(u)[1]

\* What App (web) or AppNavigator (mobile) renders.
App ==
    IF isLoading THEN IF platform = "web" THEN "CircularProgress" ELSE "null"
    ELSE IF platform = "web" THEN Routes(path, user).name
    ELSE path

NewFlow(fn, pc) == [fn |-> fn, pc |-> pc, tok |-> NULL, auth |-> FALSE, live |-> TRUE]

\* The forms that started the flows are no longer mounted.
Unmounted(fl) == [f \in DOMAIN fl |-> [fl[f] EXCEPT !.live = FALSE]]

\* Flow f has returned or thrown: it leaves the list.  The checkAuth of the
\* page load stays, as the mark that the mount effect has run.
Ended(fl, f) ==
    IF fl[f].fn = "checkAuth" THEN [fl EXCEPT ![f].pc = "done", ![f].auth = FALSE]
    ELSE SubSeq(fl, 1, f - 1) \o SubSeq(fl, f + 1, Len(fl))

\* checkAuth has been started by the mount effect of this page load.
AuthMounted == \E f \in DOMAIN flows : flows[f].fn = "checkAuth"

AuthRest == UNCHANGED <<avars, hvars, gvars, rvars, wvars, pvars, svars>>

\* The location becomes what p leads to for user u; a form that is left is
\* unmounted, and its `loading` with it.
Route(p, u, fl, fload) ==
    /\ path' = Location(p, u)
    /\ IF path' # path
       THEN formLoading' = FALSE /\ flows' = Unmounted(fl)
       ELSE formLoading' = fload /\ flows' = fl

\* setLoading(false) of the form that awaited flow f, if it is still mounted.
FormSettled(f) == IF flows[f].live THEN FALSE ELSE formLoading

\* useEffect(() => { checkAuth() }, []), up to the first await.
CheckAuth ==
    /\ ~AuthMounted
    /\ authCalls < MaxAuthCalls
    /\ aop' = "checkAuth"
    /\ IF platform = "web"
       THEN IF token # NULL
            THEN /\ flows' = Append(flows, [NewFlow("checkAuth", "getMe") EXCEPT !.auth = TRUE])
                 /\ lastRequest' = [url |-> "/auth/me", authorization |-> Authorization(token)]
                 /\ UNCHANGED <<isLoading, path, formLoading>>
            ELSE /\ isLoading' = FALSE
                 /\ Route(path, user, Append(flows, NewFlow("checkAuth", "done")), formLoading)
                 /\ UNCHANGED lastRequest
       ELSE /\ flows' = Append(flows, NewFlow("checkAuth", "getToken"))
            /\ UNCHANGED <<isLoading, path, formLoading, lastRequest>>
    /\ authCalls' = authCalls + 1
    /\ UNCHANGED <<token, user>>
    /\ AuthRest

\* Mobile checkAuth after `await getToken()`.
GetTokenResolves(f) ==
    /\ flows[f].pc = "getToken"
    /\ aop' = "getTokenResolves"
    /\ IF token # NULL
       THEN /\ flows' = [flows EXCEPT ![f].pc = "getMe", ![f].auth = TRUE]
            /\ lastRequest' = [url |-> "/auth/me", authorization |-> Authorization(token)]
            /\ UNCHANGED <<isLoading, path, formLoading>>
       ELSE /\ isLoading' = FALSE
            /\ Route(path, user, Ended(flows, f), formLoading)
            /\ UNCHANGED lastRequest
    /\ UNCHANGED <<token, user, authCalls>>
    /\ AuthRest

\* GET /auth/me answers with user u: setUser(userData).  checkAuth goes on
\* to setIsLoading(false); login returns, and on the web LoginPage goes on
\* to navigate('/') and setLoading(false).
GetMeResolves(f, u) ==
    /\ flows[f].pc = "getMe"
    /\ flows[f].auth
    /\ aop' = "getMeResolves"
    /\ user' = <<u>>
    /\ isLoading' = IF flows[f].fn = "checkAuth" THEN FALSE ELSE isLoading
    /\ IF flows[f].fn = "checkAuth" \/ platform = "mobile"
       THEN Route(path, <<u>>, Ended(flows, f), FormSettled(f))
       ELSE Route("/", <<u>>, Ended(flows, f), FormSettled(f))
    /\ UNCHANGED <<token, authCalls, lastRequest>>
    /\ AuthRest

\* login or register rejects: the form's catch sets its error, finally
\* setLoading(false).
Rejects(f) ==
    /\ flows' = Ended(flows, f)
    /\ formLoading' = FormSettled(f)
    /\ UNCHANGED <<token, user, isLoading, path, authCalls, lastRequest>>

\* GET /auth/me fails.  The web checkAuth removes the token and ends; the
\* mobile checkAuth starts `await removeToken()`; login rejects.
GetMeFails(f) ==
    /\ flows[f].pc = "getMe"
    /\ aop' = "getMeFails"
    /\ IF flows[f].fn = "checkAuth"
       THEN IF platform = "web"
            THEN /\ token' = NULL
                 /\ isLoading' = FALSE
                 /\ Route(path, user, Ended(flows, f), formLoading)
                 /\ UNCHANGED <<user, authCalls, lastRequest>>
            ELSE /\ flows' = [flows EXCEPT ![f].pc = "removeToken"]
                 /\ UNCHANGED <<token, user, isLoading, path, authCalls,
                                formLoading, lastRequest>>
       ELSE Rejects(f)
    /\ AuthRest

\* removeToken of the mobile client: the key is deleted from storage.
RemoveTokenDone(f) ==
    /\ flows[f].pc = "removeToken"
    /\ aop' = "removeTokenDone"
    /\ token' = NULL
    /\ flows' = [flows EXCEPT ![f].pc = "removed"]
    /\ UNCHANGED <<user, isLoading, path, authCalls, formLoading, lastRequest>>
    /\ AuthRest

\* The continuation after `await removeToken()`: setUser(null), and in
\* checkAuth the finally block, setIsLoading(false).
AfterRemoveToken(f) ==
    /\ flows[f].pc = "removed"
    /\ aop' = "afterRemoveToken"
    /\ user' = <<>>
    /\ isLoading' = IF flows[f].fn = "checkAuth" THEN FALSE ELSE isLoading
    /\ Route(path, <<>>, Ended(flows, f), formLoading)
    /\ UNCHANGED <<token, authCalls, lastRequest>>
    /\ AuthRest

\* The login form calls login(email, password): POST /auth/login goes out.
\* The submit button is disabled while the form's `loading` is set.
Login ==
    /\ ~isLoading
    /\ App \in {"LoginPage", "Login"}
    /\ ~formLoading
    /\ authCalls < MaxAuthCalls
    /\ aop' = "login"
    /\ flows' = Append(flows, NewFlow("login", "post"))
    /\ formLoading' = TRUE
    /\ lastRequest' = [url |-> "/auth/login", authorization |-> Authorization(token)]
    /\ authCalls' = authCalls + 1
    /\ UNCHANGED <<token, user, isLoading, path>>
    /\ AuthRest

\* POST /auth/login answers with access_token t.  Web: setItem, then GET
\* /auth/me goes out.  Mobile: `await setToken(...)` starts.
PostResolves(f, t) ==
    /\ flows[f].pc = "post"
    /\ aop' = "postResolves"
    /\ IF platform = "web"
       THEN /\ token' = t
            /\ lastRequest' = [url |-> "/auth/me", authorization |-> Authorization(t)]
            /\ flows' = [flows EXCEPT ![f].pc = "getMe", ![f].tok = t, ![f].auth = TRUE]
       ELSE /\ flows' = [flows EXCEPT ![f].pc = "setToken", ![f].tok = t]
            /\ UNCHANGED <<token, lastRequest>>
    /\ UNCHANGED <<user, isLoading, path, authCalls, formLoading>>
    /\ AuthRest

\* POST /auth/login fails: login rejects.
PostFails(f) ==
    /\ flows[f].pc = "post"
    /\ aop' = "postFails"
    /\ Rejects(f)
    /\ AuthRest

\* setToken of the mobile client: the key is written to storage.
SetTokenDone(f) ==
    /\ flows[f].pc = "setToken"
    /\ aop' = "setTokenDone"
    /\ token' = flows[f].tok
    /\ flows' = [flows EXCEPT ![f].pc = "stored"]
    /\ UNCHANGED <<user, isLoading, path, authCalls, formLoading, lastRequest>>
    /\ AuthRest

\* Mobile login after `await setToken(...)`: GET /auth/me goes out with the
\* header the interceptor reads from storage at that moment.
SendGetMe(f) ==
    /\ flows[f].pc = "stored"
    /\ aop' = "sendGetMe"
    /\ lastRequest' = [url |-> "/auth/me", authorization |-> Authorization(token)]
    /\ flows' = [flows EXCEPT ![f].pc = "getMe", ![f].auth = (Authorization(token) # "")]
    /\ UNCHANGED <<token, user, isLoading, path, authCalls, formLoading>>
    /\ AuthRest

\* The register form calls register(data): POST /auth/register goes out.
Register ==
    /\ ~isLoading
    /\ App \in {"RegisterPage", "Register"}
    /\ ~formLoading
    /\ authCalls < MaxAuthCalls
    /\ aop' = "register"
    /\ flows' = Append(flows, NewFlow("register", "register"))
    /\ formLoading' = TRUE
    /\ lastRequest' = [url |-> "/auth/register", authorization |-> Authorization(token)]
    /\ authCalls' = authCalls + 1
    /\ UNCHANGED <<token, user, isLoading, path>>
    /\ AuthRest

\* POST /auth/register succeeds.  Web: register returns, RegisterPage sets
\* `success` and a timer.  Mobile: register goes on with login.
RegisterResolves(f) ==
    /\ flows[f].pc = "register"
    /\ aop' = "registerResolves"
    /\ IF platform = "web"
       THEN /\ flows' = [flows EXCEPT ![f].pc = "timer"]
            /\ formLoading' = FormSettled(f)
            /\ UNCHANGED lastRequest
       ELSE /\ flows' = [flows EXCEPT ![f].pc = "post"]
            /\ lastRequest' = [url |-> "/auth/login", authorization |-> Authorization(token)]
            /\ UNCHANGED formLoading
    /\ UNCHANGED <<token, user, isLoading, path, authCalls>>
    /\ AuthRest

RegisterFails(f) ==
    /\ flows[f].pc = "register"
    /\ aop' = "registerFails"
    /\ Rejects(f)
    /\ AuthRest

\* setTimeout(() => navigate('/login'), 2000) of RegisterPage fires.
TimerFires(f) ==
    /\ flows[f].pc = "timer"
    /\ ~isLoading
    /\ aop' = "timerFires"
    /\ Route("/login", user, Ended(flows, f), formLoading)
    /\ UNCHANGED <<token, user, isLoading, authCalls, lastRequest>>
    /\ AuthRest

\* logout.  Web (the Logout button of Layout): removeItem and setUser(null)
\* in one handler.  Mobile (the logout button of EventsListScreen):
\* `await removeToken()` starts.
Logout ==
    /\ ~isLoading
    /\ isAuthenticated(user)
    /\ platform = "mobile" => path = "Main"
    /\ authCalls < MaxAuthCalls
    /\ aop' = "logout"
    /\ IF platform = "web"
       THEN /\ token' = NULL
            /\ user' = <<>>
            /\ Route(path, <<>>, flows, formLoading)
       ELSE /\ flows' = Append(flows, NewFlow("logout", "removeToken"))
            /\ UNCHANGED <<token, user, path, formLoading>>
    /\ authCalls' = authCalls + 1
    /\ UNCHANGED <<isLoading, lastRequest>>
    /\ AuthRest

\* The links and buttons that navigate inside the app.
Links ==
    IF platform = "web"
    THEN CASE App = "LoginPage"    -> {"/register"}
           [] App = "RegisterPage" -> {"/login"}
           [] App = "HomePage"     -> {"/", "/report", "/event"}
                                      \cup (IF isAdmin(user) THEN {"/analytics"} ELSE {})
           [] OTHER                -> {"/", "/report"}
                                      \cup (IF isAdmin(user) THEN {"/analytics"} ELSE {})
    ELSE CASE App = "Login"    -> {"Register"}
           [] App = "Register" -> {"Login"}
           [] App = "Main"     -> {"EventDetail"}
           [] OTHER            -> {"Main"}

GoTo(p) ==
    /\ ~isLoading
    /\ p \in Links
    /\ p # path
    /\ aop' = "goTo"
    /\ Route(p, user, flows, formLoading)
    /\ UNCHANGED <<token, user, isLoading, authCalls, lastRequest>>
    /\ AuthRest

\* The page is loaded at address p (web), or the app is started again
\* (mobile): the state of the components is new, storage is kept.
Load(p) ==
    /\ AuthMounted
    /\ authCalls < MaxAuthCalls
    /\ p \in (IF platform = "web" THEN Paths ELSE {"Login"})
    /\ aop' = "load"
    /\ user' = <<>>
    /\ isLoading' = TRUE
    /\ path' = p
    /\ formLoading' = FALSE
    /\ flows' = <<>>
    /\ UNCHANGED <<token, authCalls, lastRequest>>
    /\ AuthRest

AuthInit ==
    /\ token \in StoredTokens
    /\ user = <<>>
    /\ isLoading = TRUE
    /\ path \in (IF platform = "web" THEN Paths ELSE {"Login"})
    /\ authCalls = 0
    /\ formLoading = FALSE
    /\ flows = <<>>
    /\ lastRequest = NoRequest
    /\ aop = "none"

(***************************************************************************)
(* A backend that holds a collection of events and honours skip and limit: *)
(* GET /events?skip=&limit= answers with the events at the positions       *)
(* skip+1 .. skip+limit of its list.  An event is its id; the ids are      *)
(* given out in the order of creation.  The backend lists its events       *)
(* newest first or oldest first, and other clients create events.          *)
(***************************************************************************)
StoreSizes == {0, 37, 100, 200}

StoreOrders == {"front", "back"}

\* The list of a backend that holds the events 1..n.
StoreOf(n, order) == [k \in 1..n |-> IF order = "front" THEN n + 1 - k ELSE k]

\* The page the backend answers skip and limit with.
StorePage(skip, lim) ==
    SubSeq(store, skip + 1, IF skip + lim < Len(store) THEN skip + lim ELSE Len(store))

\* The requests one more call may need, whatever is created meanwhile.
Budget == (Len(store) + MaxCreates - Len(creations)) \div limit + 1

\* Request r is answered from the collection as it is at that moment.
StorePageResolves(r) ==
    /\ r \in DOMAIN reqlog
    /\ reqlog[r].st = "pending"
    /\ LET c    == reqlog[r].call
           page == StorePage(ParseDecimal(reqlog[r].skip), ParseDecimal(reqlog[r].limit))
           next == AfterPage(calls[c], page)
           done == [reqlog EXCEPT ![r].st = "ok", ![r].size = Len(page)]
       IN  IF next.hasMore
           THEN /\ calls' = [calls EXCEPT ![c] = next]
                /\ reqlog' = Append(done, Request(c, next.skip))
                /\ UNCHANGED <<events, loading, error>>
           ELSE /\ calls' = [calls EXCEPT ![c] = [next EXCEPT !.st = "resolved"]]
                /\ reqlog' = done
                /\ LoadResolved(next.allEvents)
    /\ op' = "pageResolves"
    /\ UNCHANGED <<mounted, timeRange, hvars, gvars, xvars>>

\* Another client creates an event: POST /events on the backend.
StoreCreate ==
    /\ Len(creations) < MaxCreates
    /\ store' = IF inserts = "front" THEN <<Len(store) + 1>> \o store
                ELSE Append(store, Len(store) + 1)
    /\ creations' = Append(creations,
           [id |-> Len(store) + 1, ncalls |-> Len(calls),
            during |-> {c \in DOMAIN calls : calls[c].st = "awaiting"}])
    /\ UNCHANGED <<inserts, avars, hvars, gvars, rvars, wvars, uvars, pvars>>

StoreInit ==
    /\ inserts \in StoreOrders
    /\ store \in {StoreOf(n, inserts) : n \in StoreSizes}
    /\ creations = <<>>

(***************************************************************************)
(* The location card and the map picker of the mobile ReportScreen:        *)
(* getCurrentLocation, the two buttons that open the modal, a tap on the   *)
(* modal's map, Confirm Location and Cancel.                               *)
(***************************************************************************)
\* The positions the device reports and the user taps.
Positions == Points \cup {<<0, 0>>}

\* The location card shows its buttons: neither the spinner nor the modal
\* is in front of them.
CardButtons == reportMounted /\ ~loadingLocation /\ ~showMapPicker

PickerRest ==
    UNCHANGED <<reportMounted, description, tagInput, tags, image,
                reportLoading, reportError, success, handler, posts, edits, rop,
                avars, hvars, gvars, wvars, uvars, svars>>

\* `Use Current Location` / `Use Current`: getCurrentLocation up to its
\* first await.
getCurrentLocation ==
    /\ CardButtons
    /\ loadingLocation' = TRUE
    /\ locate' = "permission"
    /\ pop' = "getCurrentLocation"
    /\ UNCHANGED <<selectedLocation, showMapPicker, mapCenter, openedWith>>
    /\ PickerRest

\* requestForegroundPermissionsAsync resolves: without the permission the
\* run returns through `finally`, with it the position is asked for.
PermissionResolves(granted) ==
    /\ reportMounted /\ locate = "permission"
    /\ locate' = IF granted THEN "position" ELSE "none"
    /\ loadingLocation' = IF granted THEN loadingLocation ELSE FALSE
    /\ pop' = IF granted THEN "granted" ELSE "denied"
    /\ UNCHANGED <<selectedLocation, showMapPicker, mapCenter, openedWith>>
    /\ PickerRest

\* getCurrentPositionAsync resolves with position p.
PositionResolves(p) ==
    /\ reportMounted /\ locate = "position"
    /\ selectedLocation' = p
    /\ mapCenter' = p
    /\ loadingLocation' = FALSE
    /\ locate' = "none"
    /\ pop' = "position"
    /\ UNCHANGED <<showMapPicker, openedWith>>
    /\ PickerRest

\* Either await rejects: catch, then finally.
LocationFails ==
    /\ reportMounted /\ locate # "none"
    /\ loadingLocation' = FALSE
    /\ locate' = "none"
    /\ pop' = "locationFails"
    /\ UNCHANGED <<selectedLocation, showMapPicker, mapCenter, openedWith>>
    /\ PickerRest

\* `Select on Map` / `Change Location`.
OpenMapPicker ==
    /\ CardButtons
    /\ showMapPicker' = TRUE
    /\ openedWith' = selectedLocation
    /\ pop' = "open"
    /\ UNCHANGED <<selectedLocation, loadingLocation, mapCenter, locate>>
    /\ PickerRest

\* A tap on the map of the modal.
handleMapPress(p) ==
    /\ reportMounted /\ showMapPicker
    /\ selectedLocation' = p
    /\ pop' = "mapPress"
    /\ UNCHANGED <<showMapPicker, loadingLocation, mapCenter, locate, openedWith>>
    /\ PickerRest

\* `Confirm Location`, disabled while there is no selectedLocation.
confirmLocation ==
    /\ reportMounted /\ showMapPicker
    /\ selectedLocation # NULL
    /\ showMapPicker' = FALSE
    /\ pop' = "confirm"
    /\ UNCHANGED <<selectedLocation, loadingLocation, mapCenter, locate, openedWith>>
    /\ PickerRest

\* `Cancel`.
CancelMapPicker ==
    /\ reportMounted /\ showMapPicker
    /\ showMapPicker' = FALSE
    /\ pop' = "cancel"
    /\ UNCHANGED <<selectedLocation, loadingLocation, mapCenter, locate, openedWith>>
    /\ PickerRest

\* The screen after its mount effect has called getCurrentLocation.
PickerInit ==
    /\ showMapPicker = FALSE
    /\ loadingLocation = TRUE
    /\ mapCenter = DefaultPoint
    /\ locate = "permission"
    /\ openedWith = NULL
    /\ pop = "none"

\* The components the other specifications leave out, in their state
\* before anything has run.
AuthIdle ==
    /\ token = NULL
    /\ user = <<>>
    /\ isLoading = TRUE
    /\ path = "/"
    /\ authCalls = 0
    /\ formLoading = FALSE
    /\ flows = <<>>
    /\ lastRequest = NoRequest
    /\ aop = "none"

PickerIdle ==
    /\ showMapPicker = FALSE
    /\ loadingLocation = FALSE
    /\ mapCenter = DefaultPoint
    /\ locate = "none"
    /\ openedWith = NULL
    /\ pop = "none"

StoreIdle ==
    /\ store = <<>>
    /\ inserts = "front"
    /\ creations = <<>>

RestIdle == AuthIdle /\ PickerIdle /\ StoreIdle

Init == AnalyticsInit /\ HomeIdle /\ AggIdle /\ ReportIdle /\ PushIdle /\ RestIdle

Next ==
    \/ Mount
    \/ Refresh
    \/ \E v \in TimeRanges : SetTimeRange(v)
    \/ \E r \in DOMAIN reqlog, order \in PageOrders :
         \E size \in ShortSizes \cup {limit} : PageResolves(r, size, order)
    \/ \E r \in DOMAIN reqlog : PageFails(r)

Spec == Init /\ [][Next]_vars

HomeNext ==
    \/ HomeMount
    \/ \E v \in AlertCodes \cup {"all"} : SetAlertFilter(v)
    \/ HomeRefresh
    \/ \E f \in DOMAIN fetches :
         \E data \in Answers(fetches[f].param) : FetchResolves(f, data)
    \/ \E f \in DOMAIN fetches : FetchFails(f)

AggNext ==
    \/ AggRender
    \/ \E v \in TimeRanges : AggSetTimeRange(v)
    \/ Tick

InitAgg == AnalyticsInit /\ HomeIdle /\ AggInit /\ ReportIdle /\ PushIdle /\ RestIdle

SpecAgg == InitAgg /\ [][AggNext]_vars

InitHome == AnalyticsInit /\ HomeInit /\ AggIdle /\ ReportIdle /\ PushIdle /\ RestIdle

SpecHome == InitHome /\ [][HomeNext]_vars

\* The clock advances by at most one step while a render runs.
Drifts == {0, 1}

StatNext ==
    \/ \E drift \in Drifts : StatsRender(drift)
    \/ \E v \in TimeRanges, drift \in Drifts : StatsSetTimeRange(v, drift)
    \/ Tick

InitStats == AnalyticsInit /\ HomeIdle /\ StatInit /\ ReportIdle /\ PushIdle /\ RestIdle

SpecStats == InitStats /\ [][StatNext]_vars

ReportNext ==
    \/ \E v \in Descriptions : SetDescription(v)
    \/ \E v \in TagInputs : SetTagInput(v)
    \/ AddTag
    \/ \E t \in {trim(v) : v \in TagInputs} : RemoveTag(t)
    \/ \E f \in Files \cup {NULL} : SetImage(f)
    \/ \E p \in Points : MapPress(p)
    \/ Submit
    \/ CreateResolves
    \/ CreateFails
    \/ UploadResolves
    \/ UploadFails
    \/ Navigate

InitReport == AnalyticsInit /\ HomeInit /\ AggIdle /\ ReportInit /\ PushIdle /\ RestIdle

SpecReport == InitReport /\ [][ReportNext]_vars

\* HomePage with its socket; the fetches are capped lower than in SpecHome.
PushNext ==
    \/ HomeNext /\ Len(fetches') <= MaxPushFetches
    \/ \E text \in Messages : WsMessage(text)

InitPush == AnalyticsInit /\ HomeIdle /\ AggIdle /\ ReportIdle /\ PushIdle /\ RestIdle

SpecPush == InitPush /\ [][PushNext]_vars

AuthNext ==
    \/ CheckAuth
    \/ \E f \in DOMAIN flows : GetTokenResolves(f)
    \/ \E f \in DOMAIN flows, u \in Users : GetMeResolves(f, u)
    \/ \E f \in DOMAIN flows : GetMeFails(f)
    \/ \E f \in DOMAIN flows : RemoveTokenDone(f)
    \/ \E f \in DOMAIN flows : AfterRemoveToken(f)
    \/ Login
    \/ \E f \in DOMAIN flows, t \in Tokens : PostResolves(f, t)
    \/ \E f \in DOMAIN flows : PostFails(f)
    \/ \E f \in DOMAIN flows : SetTokenDone(f)
    \/ \E f \in DOMAIN flows : SendGetMe(f)
    \/ Register
    \/ \E f \in DOMAIN flows : RegisterResolves(f)
    \/ \E f \in DOMAIN flows : RegisterFails(f)
    \/ \E f \in DOMAIN flows : TimerFires(f)
    \/ Logout
    \/ \E p \in Paths \cup Screens : GoTo(p)
    \/ \E p \in Paths \cup Screens : Load(p)

InitAuth ==
    AnalyticsInit /\ HomeInit /\ AggIdle /\ ReportIdle /\ PushIdle
    /\ AuthInit /\ PickerIdle /\ StoreIdle

SpecAuth == InitAuth /\ [][AuthNext]_vars

\* AnalyticsPage against the backend with a collection.  A load starts only
\* if the requests it may need fit the bound.
StoreNext ==
    \/ Mount /\ Len(reqlog) + Budget <= MaxRequests
    \/ Refresh /\ Len(reqlog) + Budget <= MaxRequests
    \/ \E r \in DOMAIN reqlog : StorePageResolves(r)
    \/ \E r \in DOMAIN reqlog : PageFails(r)
    \/ StoreCreate

InitStore ==
    AnalyticsInit /\ HomeIdle /\ AggIdle /\ ReportIdle /\ PushIdle
    /\ AuthIdle /\ PickerIdle /\ StoreInit

SpecStore == InitStore /\ [][StoreNext]_vars

\* Every page request eventually completes: it is answered or it fails.
Responds == \E r \in DOMAIN reqlog : StorePageResolves(r) \/ PageFails(r)

SpecStoreFair == SpecStore /\ WF_vars(Responds)

PickerNext ==
    \/ getCurrentLocation
    \/ \E granted \in BOOLEAN : PermissionResolves(granted)
    \/ \E p \in Positions : PositionResolves(p)
    \/ LocationFails
    \/ OpenMapPicker
    \/ \E p \in Positions : handleMapPress(p)
    \/ confirmLocation
    \/ CancelMapPicker

InitPicker ==
    /\ AnalyticsInit /\ HomeInit /\ AggIdle /\ PushIdle /\ AuthIdle /\ StoreIdle
    /\ platform = "mobile"
    /\ ReportInit
    /\ PickerInit

SpecPicker == InitPicker /\ [][PickerNext]_vars



(***************************************************************************)
(* Properties of the paged fetch and of the analytics page (Spec).         *)
(***************************************************************************)
\* The requests of call c, in the order they were issued.
RequestsOf(c) == SelectSeq(reqlog, LAMBDA q : q.call = c)

SizesOf(c) == [k \in DOMAIN RequestsOf(c) |-> RequestsOf(c)[k].size]

\* The pages call c has received, in request order, as the backend sent them.
PagesOf(c) ==
    LET rs == SelectSeq(RequestsOf(c), LAMBDA q : q.st = "ok") IN
    [k \in DOMAIN rs |-> ServerPage(rs[k].order, 100 * (k - 1), rs[k].size)]

\* C1: the page requests of one getAllForAnalytics call go out one at a time:
\* request k (counted from 0) carries skip = 100*k and limit = 100, every
\* request but the last has resolved with a full page (so request k is issued
\* only after request k-1 has resolved, and none follows a page of fewer than
\* 100 events); pages of sizes [100,100,37] give exactly three requests.
C1_SequentialPaging ==
    \A c \in DOMAIN calls :
        LET rs == RequestsOf(c) IN
        /\ Len(rs) >= 1
        /\ \A k \in DOMAIN rs :
              /\ rs[k].skip = ToString(100 * (k - 1))
              /\ rs[k].limit = "100"
              /\ k < Len(rs) => rs[k].st = "ok" /\ rs[k].size >= 100
        /\ (Len(rs) >= 3 /\ rs[3].st = "ok" /\ rs[3].size = 37) => Len(rs) = 3

C1_Witness ==
    \E c \in DOMAIN calls :
        /\ calls[c].st = "resolved"
        /\ SizesOf(c) = <<100, 100, 37>>

\* C2: when every page request of a call has succeeded, the array the call
\* returns is the concatenation of the received pages in request order, each
\* page as the backend sent it (nothing re-sorted, dropped or de-duplicated),
\* its length is the sum of the page sizes, and that array is what setEvents
\* receives.
C2_ResultIsConcatenation ==
    /\ \A c \in DOMAIN calls :
          calls[c].st = "resolved" =>
              /\ calls[c].allEvents = Flatten(PagesOf(c))
              /\ Len(calls[c].allEvents) = SumSeq(SizesOf(c))
    /\ (op = "pageResolves" /\ ~loading) =>
          \E c \in DOMAIN calls :
              calls[c].st = "resolved" /\ events = Flatten(PagesOf(c))

C2_Witness ==
    \E c \in DOMAIN calls :
        /\ calls[c].st = "resolved"
        /\ SizesOf(c) = <<100, 100, 37>>
        /\ Len(calls[c].allEvents) = 237
        /\ events = calls[c].allEvents
        /\ \E i, j \in DOMAIN events : i < j /\ events[i] = events[j]
        /\ \E i, j \in DOMAIN events : i < j /\ events[i] > events[j]
        /\ \E i, j \in DOMAIN events : i < j /\ events[i] < events[j]

\* C3: when a page request of a load fails, on the first page or a later one,
\* the call rejects with no further request, and the step that handles the
\* failure leaves `events` as it was when the load started, sets `error` to
\* the message and `loading` to false; a rejected call never has a request
\* pending.
C3_FailureDiscardsPartial ==
    /\ [](\A r \in DOMAIN reqlog :
             calls[reqlog[r].call].st = "rejected" => reqlog[r].st # "pending")
    /\ [][\A c \in DOMAIN calls :
             (calls[c].st = "awaiting" /\ calls'[c].st = "rejected") =>
                 /\ events' = calls[c].before
                 /\ error' = "Could not load data from server"
                 /\ loading' = FALSE
                 /\ Len(reqlog') = Len(reqlog)
                 /\ reqlog'[Len(reqlog')].st = "failed"]_vars

\* A second load that fails on its second page, after a first load that
\* filled `events`.
C3_Witness ==
    /\ Len(calls) = 2
    /\ calls[1].st = "resolved" /\ calls[1].allEvents # <<>>
    /\ calls[2].st = "rejected" /\ Len(calls[2].allEvents) = 100
    /\ events = calls[1].allEvents
    /\ error # NULL /\ ~loading

\* The result of the call that resolved last, <<>> when none has.
LastResolvedData ==
    LET done == {c \in DOMAIN calls : calls[c].st = "resolved"} IN
    IF done = {} THEN <<>>
    ELSE calls[CHOOSE c \in done : \A d \in done : d <= c].allEvents

\* C5 as stated: the initial load, a change of the time range and a press of
\* Refresh each start exactly one fetch.
C5_EveryUserActionFetches ==
    [][op' \in {"mount", "refresh", "setTimeRange"} =>
          /\ Len(calls') = Len(calls) + 1
          /\ Len(reqlog') = Len(reqlog) + 1]_vars

\* C5 amended: the initial load and a press of Refresh each start exactly one
\* fetch (one call, one first request); a change of the time range starts
\* none and leaves `events` alone; `events`, which the aggregates are
\* computed from, changes only in the step in which a fetch resolves, to that
\* fetch's result, and whenever the page is not loading it is the result of
\* the fetch that resolved last.
C5_LoadAndRefreshFetchOnce ==
    /\ [](mounted /\ ~loading => events = LastResolvedData)
    /\ [][/\ op' \in {"mount", "refresh"} =>
               /\ Len(calls') = Len(calls) + 1
               /\ Len(reqlog') = Len(reqlog) + 1
          /\ op' = "setTimeRange" =>
               /\ calls' = calls /\ reqlog' = reqlog /\ events' = events
          /\ events' # events =>
               /\ op' = "pageResolves"
               /\ \E c \in DOMAIN calls :
                     /\ calls[c].st = "awaiting"
                     /\ calls'[c].st = "resolved"
                     /\ events' = calls'[c].allEvents]_vars

\* The time range is changed after the first fetch has resolved with events,
\* and no second fetch exists.
C5_Witness ==
    /\ op = "setTimeRange"
    /\ timeRange # "all"
    /\ Len(calls) = 1 /\ calls[1].st = "resolved"
    /\ events # <<>>

\* C6: once a fetch has failed no request goes out by itself: while `error`
\* is set, every step other than a press of Refresh leaves the number of
\* requests sent and the error message unchanged, and the message is cleared
\* only by the reload that Refresh starts.
C6_NoAutomaticRetry ==
    [][error # NULL =>
          \/ op' = "refresh" /\ error' = NULL /\ Len(reqlog') = Len(reqlog) + 1
          \/ op' # "refresh" /\ error' = error /\ Len(reqlog') = Len(reqlog)]_vars

\* After a failure the user changes the time range: still the same requests.
C6_Witness ==
    /\ error # NULL
    /\ op = "setTimeRange"
    /\ \E r \in DOMAIN reqlog : reqlog[r].st = "failed"
    /\ \A r \in DOMAIN reqlog : reqlog[r].st # "pending"

(***************************************************************************)
(* Properties of the event lists (SpecHome).                               *)
(***************************************************************************)
\* C4: starting a fetch leaves every fetch already in flight in flight, and
\* the response of any fetch, the newest or not, becomes `events` in the
\* step in which it resolves; so the response that resolves last is the one
\* shown, also when it answers an older request than one already shown.
C4_LastResponseWins ==
    /\ [][Len(fetches') > Len(fetches) =>
             \A f \in DOMAIN fetches : fetches'[f] = fetches[f]]_vars
    /\ [][\A f \in DOMAIN fetches :
             (fetches[f].st = "pending" /\ fetches'[f].st = "ok") =>
                 homeEvents' = fetches'[f].data]_vars

\* Fetch f was started before fetch g and resolved after it, and `events`
\* holds f's response although g's differs and g asked for the filter now
\* selected.
StaleOverwrite(p) ==
    /\ platform = p
    /\ \E f, g \in DOMAIN fetches :
          /\ f < g
          /\ fetches[f].st = "ok" /\ fetches[g].st = "ok"
          /\ \E i, j \in DOMAIN resolved :
                i < j /\ resolved[i] = g /\ resolved[j] = f /\ j = Len(resolved)
          /\ homeEvents = fetches[f].data
          /\ fetches[f].data # fetches[g].data
          /\ fetches[g].param = AlertParam(alertFilter)
          /\ fetches[f].param # fetches[g].param

C4_Witness == StaleOverwrite("web")

C4_WitnessMobile == StaleOverwrite("mobile")

(***************************************************************************)
(* Properties of the time-range filter and the aggregators (SpecAgg).      *)
(* E is the filtered set of the last render, shown.displayEvents.          *)
(***************************************************************************)
RECURSIVE Kept(_, _)
Kept(evts, cutoff) ==
    IF evts = <<>> THEN <<>>
    ELSE (IF Head(evts).reported_at >= cutoff THEN <<Head(evts)>> ELSE <<>>)
         \o Kept(Tail(evts), cutoff)

Times(evts) == {evts[i].reported_at : i \in DOMAIN evts}

\* C7: for the selector 7d / 30d / 90d the filtered set is the sub-sequence
\* of `events` whose reported_at is at or after the render's clock reading
\* minus 7 / 30 / 90 days, in the original order; for 'all' it is `events`.
\* With 7d an event dated 8 days before is left out, one dated 6 days 23 hours
\* before and one dated exactly 7 days before are kept.
C7_TimeRangeFilter ==
    Rendered =>
        LET E == shown.displayEvents
            t == shown.at
        IN  /\ aggRange = "all" => E = aggEvents
            /\ aggRange = "7d"  => E = Kept(aggEvents, t - 7 * 24)
            /\ aggRange = "30d" => E = Kept(aggEvents, t - 30 * 24)
            /\ aggRange = "90d" => E = Kept(aggEvents, t - 90 * 24)
            /\ aggRange = "7d"  =>
                  /\ (t - 8 * 24) \notin Times(E)
                  /\ (t - (6 * 24 + 23)) \in Times(aggEvents) => (t - (6 * 24 + 23)) \in Times(E)
                  /\ (t - 7 * 24) \in Times(aggEvents) => (t - 7 * 24) \in Times(E)

\* 7d selected over events dated 8 days, 6 days 23 hours and exactly 7 days
\* before the clock reading.
C7_Witness ==
    /\ Rendered
    /\ aggRange = "7d"
    /\ {shown.at - 192, shown.at - 167, shown.at - 168} \subseteq Times(aggEvents)
    /\ Times(shown.displayEvents) = {shown.at - 167, shown.at - 168}

Labels(entries, field) == [k \in DOMAIN entries |-> entries[k][field]]

Counts(entries, field) == [k \in DOMAIN entries |-> entries[k][field]]

\* C8: whatever E is, by-month has the 12 entries Jan..Dec in calendar order,
\* by-alert-code the 4 entries GREEN, YELLOW, ORANGE, RED, by-day-of-week the
\* 7 weekdays from Sunday, by-hour the 24 entries "00:00" .. "23:00"; for
\* E = [] every count is 0.
C8_FixedBuckets ==
    Rendered =>
        /\ Labels(shown.eventsByMonth, "month") =
              <<"Jan", "Feb", "Mar", "Apr", "May", "Jun",
                "Jul", "Aug", "Sep", "Oct", "Nov", "Dec">>
        /\ Labels(shown.eventsByAlertCode, "name") =
              <<"GREEN", "YELLOW", "ORANGE", "RED">>
        /\ Labels(shown.eventsByDay, "day") =
              <<"Sunday", "Monday", "Tuesday", "Wednesday", "Thursday",
                "Friday", "Saturday">>
        /\ Labels(shown.eventsByHour, "hour") =
              <<"00:00", "01:00", "02:00", "03:00", "04:00", "05:00",
                "06:00", "07:00", "08:00", "09:00", "10:00", "11:00",
                "12:00", "13:00", "14:00", "15:00", "16:00", "17:00",
                "18:00", "19:00", "20:00", "21:00", "22:00", "23:00">>
        /\ shown.displayEvents = <<>> =>
              /\ \A k \in 1..12 : shown.eventsByMonth[k].count = 0
              /\ \A k \in 1..4  : shown.eventsByAlertCode[k].value = 0
              /\ \A k \in 1..7  : shown.eventsByDay[k].count = 0
              /\ \A k \in 1..24 : shown.eventsByHour[k].count = 0

\* The filter has left nothing of a non-empty `events`.
C8_Witness ==
    /\ Rendered
    /\ Len(aggEvents) = MaxAggEvents
    /\ shown.displayEvents = <<>>

Number(E, P(_)) == Cardinality({i \in DOMAIN E : P(E[i])})

\* C9: in by-month, by-alert-code, by-day-of-week and by-hour the count of a
\* bucket is the number of events of E whose reported_at month, alert_code,
\* reported_at weekday, reported_at local hour is that bucket's, and the
\* counts of each aggregation sum to |E|.  Two events on 2024-03-15 at 10:00
\* and 14:00 give by-month[Mar] = 2, by-hour[10:00] = 1, by-hour[14:00] = 1.
C9_OneBucketPerEvent ==
    Rendered =>
        LET E == shown.displayEvents IN
        /\ \A k \in DOMAIN shown.eventsByMonth :
              shown.eventsByMonth[k].count =
                  Number(E, LAMBDA e : getMonth(e.reported_at) = k - 1)
        /\ \A k \in DOMAIN shown.eventsByAlertCode :
              shown.eventsByAlertCode[k].value =
                  Number(E, LAMBDA e : e.alert_code = shown.eventsByAlertCode[k].name)
        /\ \A k \in DOMAIN shown.eventsByDay :
              shown.eventsByDay[k].count =
                  Number(E, LAMBDA e : getDay(e.reported_at) = k - 1)
        /\ \A k \in DOMAIN shown.eventsByHour :
              shown.eventsByHour[k].count =
                  Number(E, LAMBDA e : getHours(e.reported_at) = k - 1)
        /\ SumSeq(Counts(shown.eventsByMonth, "count")) = Len(E)
        /\ SumSeq(Counts(shown.eventsByAlertCode, "value")) = Len(E)
        /\ SumSeq(Counts(shown.eventsByDay, "count")) = Len(E)
        /\ SumSeq(Counts(shown.eventsByHour, "count")) = Len(E)
        /\ (Len(E) = 2 /\ Times(E) = {Noon - 4, Noon}) =>
              /\ shown.eventsByMonth[3] = [month |-> "Mar", count |-> 2]
              /\ shown.eventsByHour[11] = [hour |-> "10:00", count |-> 1]
              /\ shown.eventsByHour[15] = [hour |-> "14:00", count |-> 1]
              /\ shown.eventsByDay[6] = [day |-> "Friday", count |-> 2]

\* The two events of 2024-03-15, 10:00 and 14:00, and nothing else.
C9_Witness ==
    /\ Rendered
    /\ Len(shown.displayEvents) = 2
    /\ Times(shown.displayEvents) = {Noon - 4, Noon}
    /\ shown.eventsByMonth[3].count = 2

\* The decimal string of t tenths, and the two numbers of tenths next to the
\* share of `count` in n, in percent.
Decimal1(t) == ToString(t \div 10) \o "." \o ToString(t % 10)

Near(count, n) == LET lo == (1000 * count) \div n IN {lo, lo + 1}

IsNear(entry, n) == \E t \in Near(entry.value, n) : entry.percentage = Decimal1(t)

TenthsOf(entry, n) ==
    CHOOSE t \in Near(entry.value, n) : entry.percentage = Decimal1(t)

\* C10: the percentage of a by-alert-code bucket is its count as a share of
\* |E| in percent, to the nearest tenth; the four percentages sum to 100
\* within the rounding (0.05 a bucket) when |E| > 0, and all are 0 when
\* |E| = 0.
C10_Percentages ==
    Rendered =>
        LET E  == shown.displayEvents
            n  == Len(E)
            by == shown.eventsByAlertCode
        IN  /\ n > 0 =>
                  /\ \A k \in DOMAIN by : IsNear(by[k], n)
                  /\ \A k \in DOMAIN by :
                        LET diff == TenthsOf(by[k], n) * n - 1000 * by[k].value
                        IN  -n <= 2 * diff /\ 2 * diff <= n
                  /\ LET sum == SumSeq([k \in DOMAIN by |-> TenthsOf(by[k], n)])
                     IN  1000 - 2 <= sum /\ sum <= 1000 + 2
            /\ n = 0 => \A k \in DOMAIN by : by[k].percentage = "0.0"

\* Three events of three different codes: 33.3 each, 99.9 together.
C10_Witness ==
    /\ Rendered
    /\ Len(shown.displayEvents) = 3
    /\ \E k \in 1..4 : shown.eventsByAlertCode[k].percentage = "33.3"
    /\ SumSeq([k \in 1..4 |-> TenthsOf(shown.eventsByAlertCode[k], 3)]) = 999


(***************************************************************************)
(* Properties of the top tags, the trend by date and the statistics        *)
(* (SpecStats).                                                            *)
(***************************************************************************)
\* The positions <<event, tag>> of the flattened tag lists of E.
TagSlots(E) == UNION {{<<i, j>> : j \in DOMAIN E[i].tags} : i \in DOMAIN E}

TagsOf(E) == {E[p[1]].tags[p[2]] : p \in TagSlots(E)}

Occurrences(E, tag) == Cardinality({p \in TagSlots(E) : E[p[1]].tags[p[2]] = tag})

DaysOf(E) == {E[i].reported_at \div 24 : i \in DOMAIN E}

\* The thirty latest of them.
RecentDays(E) == {n \in DaysOf(E) : Cardinality({o \in DaysOf(E) : o > n}) < 30}

SpanDays(E) ==
    LET times    == {E[i].reported_at : i \in DOMAIN E}
        earliest == CHOOSE t \in times : \A v \in times : t <= v
        latest   == CHOOSE u \in times : \A v \in times : v <= u
        span     == latest - earliest
        days     == CHOOSE k \in {span \div 24, span \div 24 + 1} :
                        24 * (k - 1) < span /\ span <= 24 * k
    IN  IF days < 1 THEN 1 ELSE days

\* The two numbers of tenths next to the quotient n / d.
NearTenths(n, d) == LET lo == (10 * n) \div d IN {lo, lo + 1}

\* C13 as stated: avgPerDay is the quotient of |E| by the days spanned, and
\* 0 for no event.
C13_AvgPerDayIsQuotient ==
    Rendered =>
        LET E == shown.displayEvents IN
        IF Len(E) = 0 THEN shown.stats.avgPerDay = "0"
        ELSE \E t \in NearTenths(Len(E), SpanDays(E)) :
                /\ shown.stats.avgPerDay = Decimal1(t)
                /\ t * SpanDays(E) = 10 * Len(E)

\* C13 amended: for a non-empty E avgPerDay is the quotient of |E| by the
\* number of days spanned from the earliest to the latest reported_at (whole
\* days, rounded up, at least 1), rounded to one decimal; so one event, or
\* several at one instant, give |E|; for no event it is 0.
C13_AvgPerDay ==
    Rendered =>
        LET E == shown.displayEvents IN
        /\ Len(E) = 0 => shown.stats.avgPerDay = "0"
        /\ Len(E) > 0 =>
              \E t \in NearTenths(Len(E), SpanDays(E)) :
                  /\ shown.stats.avgPerDay = Decimal1(t)
                  /\ 2 * t * SpanDays(E) <= 2 * 10 * Len(E) + SpanDays(E)
                  /\ 2 * t * SpanDays(E) > 2 * 10 * Len(E) - SpanDays(E)
        /\ (Len(E) > 0 /\ \A i \in DOMAIN E : E[i].reported_at = E[1].reported_at)
              => shown.stats.avgPerDay = Decimal1(10 * Len(E))

\* Two events 14 d 1 h apart: 15 days spanned, 2 / 15 printed as 0.1.
C13_Witness ==
    /\ Rendered
    /\ Len(shown.displayEvents) = 2
    /\ shown.displayEvents[1].reported_at - shown.displayEvents[2].reported_at
           = 24 * 14 + 1
    /\ shown.stats.avgPerDay = "0.1"

\* The one-decimal string nearest to the quotient n / d of either sign.
Rounded1(n, d) ==
    LET mag == IF n < 0 THEN 0 - n ELSE n
        t   == CHOOSE t \in NearTenths(mag, d) :
                   2 * t * d <= 2 * 10 * mag + d /\ 2 * t * d > 2 * 10 * mag - d
    IN  (IF n < 0 THEN "-" ELSE "") \o Decimal1(t)

\* The two windows of the statistics at clock reading `clock`.
InLastWeek(e, clock) == e.reported_at >= clock - 24 * 7

InPrevWeek(e, clock) ==
    e.reported_at >= clock - 24 * 14 /\ e.reported_at < clock - 24 * 7

\* C14: there is a reading `clock` of the clock during the render such that,
\* with L the number of displayed events reported at or after clock - 7 d and
\* P the number reported at or after clock - 14 d and before clock - 7 d,
\* trend is 100 * (L - P) / P (to one decimal) when P > 0 and 0 when P = 0;
\* and no event is counted by both filter passes.
C14_TrendOfTwoWindows ==
    (Rendered /\ Len(shown.displayEvents) > 0) =>
        LET E == shown.displayEvents IN
        /\ \E clock \in shown.at..shown.until :
              LET L == Cardinality({i \in DOMAIN E : InLastWeek(E[i], clock)})
                  P == Cardinality({i \in DOMAIN E : InPrevWeek(E[i], clock)})
              IN  shown.stats.trend =
                      IF P > 0 THEN Rounded1(100 * (L - P), P) ELSE "0.0"
        /\ \A i \in DOMAIN E :
              ~(InLastWeek(E[i], shown.at) /\ InPrevWeek(E[i], shown.until))

\* The clock advanced between the two filter passes and an event reported
\* exactly seven days before the first reading is counted by both.
C14_Witness ==
    /\ Rendered
    /\ shown.until > shown.at
    /\ \E i \in DOMAIN shown.displayEvents :
          /\ InLastWeek(shown.displayEvents[i], shown.at)
          /\ InPrevWeek(shown.displayEvents[i], shown.until)
    /\ Len(shown.displayEvents) = 2
    /\ shown.stats.trend = "100.0"

\* With one clock reading for both passes the trend is that of C14, and in
\* particular negative when the earlier window holds more events.
TrendAtOneReading ==
    (Rendered /\ Len(shown.displayEvents) > 0 /\ shown.until = shown.at) =>
        LET E == shown.displayEvents
            L == Cardinality({i \in DOMAIN E : InLastWeek(E[i], shown.at)})
            P == Cardinality({i \in DOMAIN E : InPrevWeek(E[i], shown.at)})
        IN  /\ shown.stats.trend = IF P > 0 THEN Rounded1(100 * (L - P), P) ELSE "0.0"
            /\ \A i \in DOMAIN E :
                  ~(InLastWeek(E[i], shown.at) /\ InPrevWeek(E[i], shown.at))

\* The displayed events with alert code ORANGE or RED.
Urgent(E) == {i \in DOMAIN E : E[i].alert_code \in {"ORANGE", "RED"}}

\* C15 as stated: total is |E| and urgentPercent is the quotient
\* 100 * urgent / |E|, between 0 and 100, and 0 for no event.
C15_UrgentPercentIsQuotient ==
    Rendered =>
        LET E == shown.displayEvents IN
        /\ shown.stats.total = Len(E)
        /\ IF Len(E) = 0 THEN shown.stats.urgentPercent = "0"
           ELSE \E t \in NearTenths(100 * Cardinality(Urgent(E)), Len(E)) :
                   /\ shown.stats.urgentPercent = Decimal1(t)
                   /\ t * Len(E) = 10 * 100 * Cardinality(Urgent(E))
                   /\ 0 <= t /\ t <= 1000

\* C15 amended: total is |E|; for a non-empty E urgentPercent is
\* 100 * (number of events with alert code ORANGE or RED) / |E| rounded to
\* one decimal, between 0 and 100; for no event it is 0.
C15_UrgentPercent ==
    Rendered =>
        LET E == shown.displayEvents IN
        /\ shown.stats.total = Len(E)
        /\ IF Len(E) = 0 THEN shown.stats.urgentPercent = "0"
           ELSE \E t \in NearTenths(100 * Cardinality(Urgent(E)), Len(E)) :
                   /\ shown.stats.urgentPercent = Decimal1(t)
                   /\ 2 * t * Len(E) <= 2 * 1000 * Cardinality(Urgent(E)) + Len(E)
                   /\ 2 * t * Len(E) > 2 * 1000 * Cardinality(Urgent(E)) - Len(E)
                   /\ 0 <= t /\ t <= 1000

\* Three events, one ORANGE and one RED: 66.7.
C15_Witness ==
    /\ Rendered
    /\ shown.stats.total = 3
    /\ Cardinality({i \in Urgent(shown.displayEvents) :
                       shown.displayEvents[i].alert_code = "ORANGE"}) = 1
    /\ Cardinality(Urgent(shown.displayEvents)) = 2
    /\ shown.stats.urgentPercent = "66.7"

\* What toFixed(1) gives for a number that is not finite.
NotANumeral == {"NaN", "Infinity", "-Infinity"}

C16_WitnessEmpty ==
    /\ Rendered
    /\ aggEvents = <<>>
    /\ shown.stats.total = 0

(***************************************************************************)
(* Properties of the report forms (SpecReport).                            *)
(***************************************************************************)
NoDuplicates(list) == \A k, l \in DOMAIN list : k # l => list[k] # list[l]

\* C17: on both report forms, after any sequence of edits of the tag field,
\* addTag and removeTag, `tags` has no two equal entries (compared with
\* case), no empty or whitespace-only entry, and every entry is trimmed;
\* addTag of a tag already in the list (or of blank input) leaves the list
\* as it is, otherwise it appends the trimmed input; removeTag(t) takes t
\* out and keeps the others in order; the tags of every create request are
\* free of duplicates.
C17_TagList ==
    /\ [](/\ NoDuplicates(tags)
          /\ \A k \in DOMAIN tags :
                /\ tags[k] # <<>>
                /\ \E c \in DOMAIN tags[k] : tags[k][c] \notin Whitespace
                /\ trim(tags[k]) = tags[k]
          /\ \A q \in DOMAIN posts :
                posts[q].kind = "create" => NoDuplicates(posts[q].tags))
    /\ [][/\ (edits' # edits /\ rop' = "addTag") =>
               IF trim(tagInput) = <<>> \/ includes(tags, trim(tagInput))
               THEN tags' = tags
               ELSE tags' = Append(tags, trim(tagInput))
          /\ (edits' # edits /\ rop' = "removeTag") =>
               \E k \in DOMAIN tags :
                   /\ tags' = SubSeq(tags, 1, k - 1) \o SubSeq(tags, k + 1, Len(tags))
                   /\ ~includes(tags', tags[k])]_vars

\* addTag with " a " in the field and "a" in the list: nothing changed.
C17_Witness ==
    /\ rop = "addTag"
    /\ tags = << <<"a">> >>
    /\ tagInput = <<" ", "a", " ">>

\* The last POST /events issued before request j.
CreateBefore(j) ==
    CHOOSE i \in 0..(j - 1) :
        /\ i > 0 => posts[i].kind = "create"
        /\ \A l \in (i + 1)..(j - 1) : posts[l].kind # "create"

\* C18: on both forms an upload POST /events/{id}/image is issued only in
\* the step in which the POST /events of the same submission resolves
\* successfully, with the id that create returned, and only when an image
\* was selected when Submit was pressed; a failed create is followed by no
\* request of its submission; a Submit rejected by validation (blank
\* description; on mobile no selected location) issues no request, and on
\* mobile no request is ever issued while no location is selected.
C18_UploadAfterCreate ==
    /\ [](\A j \in DOMAIN posts :
             posts[j].kind = "upload" =>
                 LET i == CreateBefore(j) IN
                 /\ i > 0
                 /\ posts[i].st = "ok"
                 /\ posts[j].eventId = posts[i].eventId
                 /\ posts[j].file # NULL
                 /\ \A l \in DOMAIN posts :
                       (posts[l].kind = "create" /\ l # i) =>
                           posts[l].eventId # posts[j].eventId)
    /\ []((platform = "mobile" /\ selectedLocation = NULL) => posts = <<>>)
    /\ [][/\ Len(posts') > Len(posts) =>
               /\ Len(posts') = Len(posts) + 1
               /\ posts'[Len(posts')].st = "pending"
               /\ posts'[Len(posts')].kind = "upload" =>
                     /\ handler.pc = "create"
                     /\ handler.image # NULL
                     /\ posts'[Len(posts')].file = handler.image
                     /\ posts[handler.req].st = "pending"
                     /\ posts'[handler.req].st = "ok"
                     /\ posts'[Len(posts')].eventId = posts'[handler.req].eventId
               /\ posts'[Len(posts')].kind = "create" =>
                     /\ rop' = "submit"
                     /\ handler.pc = "idle"
          /\ (handler.pc = "create" /\ handler.image = NULL) =>
               Len(posts') = Len(posts)
          /\ (\E q \in DOMAIN posts : posts[q].st # "failed" /\ posts'[q].st = "failed")
               => Len(posts') = Len(posts)
          /\ (/\ rop' = "submit"
              /\ \/ trim(description) = <<>>
                 \/ platform = "mobile" /\ selectedLocation = NULL)
               => posts' = posts]_vars

\* The second submission with an image: its upload names the event its own
\* create returned.
C18_Witness ==
    /\ Len(posts) = 4
    /\ posts[1].kind = "create" /\ posts[1].st = "ok" /\ posts[1].eventId = 1
    /\ posts[2].kind = "upload"
    /\ posts[3].kind = "create" /\ posts[3].st = "ok" /\ posts[3].eventId = 3
    /\ posts[4].kind = "upload" /\ posts[4].eventId = 3
    /\ image = NULL

\* A Submit rejected for its blank description, nothing sent.
C18_WitnessRejected ==
    /\ rop = "submit"
    /\ description = <<" ">>
    /\ image # NULL
    /\ reportError = "Description is required"
    /\ posts = <<>>

\* C19: a create request carries location.coordinates = [longitude,
\* latitude] of the point the form holds when Submit is pressed, and every
\* view puts the marker of an event at latitude coordinates[1], longitude
\* coordinates[0]; so the marker of every created event stands at the
\* picked point.
C19_CoordinateRoundTrip ==
    /\ [](\A k \in DOMAIN Stored :
             <<Marker(Stored[k]).latitude, Marker(Stored[k]).longitude>> \in Points)
    /\ [][(Len(posts') > Len(posts) /\ posts'[Len(posts')].kind = "create") =>
             LET sent == posts'[Len(posts')].coordinates IN
             /\ sent = <<selectedLocation[2], selectedLocation[1]>>
             /\ Marker([location |-> [type |-> "Point", coordinates |-> sent]])
                    = [latitude |-> selectedLocation[1],
                       longitude |-> selectedLocation[2]]]_vars

\* An event created at a point picked on the map, latitude -33.7 and
\* longitude 151.2.
C19_Witness ==
    /\ platform = "mobile"
    /\ Len(Stored) = 1
    /\ Stored[1].location.coordinates = <<1512000, -337000>>
    /\ Marker(Stored[1]) = [latitude |-> -337000, longitude |-> 1512000]

(***************************************************************************)
(* Properties of the push channel (SpecPush).                              *)
(***************************************************************************)
\* The messages that are JSON objects of type "new_event" with an event,
\* and the event each carries.
NewEventMessages ==
    [text \in {"{\"type\":\"new_event\",\"event\":{\"id\":3,\"alert_code\":\"ORANGE\"}}",
               "{\"type\":\"new_event\",\"event\":{\"id\":1,\"alert_code\":\"RED\"}}"} |->
        IF text = "{\"type\":\"new_event\",\"event\":{\"id\":3,\"alert_code\":\"ORANGE\"}}"
        THEN [id |-> 3, alert_code |-> "ORANGE"]
        ELSE [id |-> 1, alert_code |-> "RED"]]

\* C20: a message that parses as JSON with type "new_event" and an event
\* puts exactly that event in front of HomePage's `events`, the earlier
\* entries kept in order; any other message, unparseable ones included,
\* leaves `events` as it is, and the handler goes on handling messages; no
\* message changes the `events` of the analytics page.
C20_PushPrepends ==
    [][delivered' # delivered =>
          /\ delivered' = delivered + 1
          /\ IF lastMessage' \in DOMAIN NewEventMessages
             THEN homeEvents' = <<NewEventMessages[lastMessage']>> \o homeEvents
             ELSE homeEvents' = homeEvents
          /\ events' = events
          /\ UNCHANGED <<homeLoading, alertFilter, fetches>>]_vars

\* A new event arrived and went in front of the fetched list; the message
\* after it was not JSON and left the list alone.
C20_Witness ==
    /\ delivered = 2
    /\ lastMessage = "not json"
    /\ resolved = <<1>>
    /\ homeEvents = <<[id |-> 3, alert_code |-> "ORANGE"], [id |-> 1, alert_code |-> "RED"]>>

(***************************************************************************)
(* C21  Analytics access control (web).                                    *)
(***************************************************************************)
ProtectedPages == {"HomePage", "ReportPage", "EventDetailPage", "AnalyticsPage"}

\* Where a visitor of /analytics is to end up.
AnalyticsFor(u) ==
    IF u = <<>> THEN "/login" ELSE IF u[1].role = "admin" THEN "/analytics" ELSE "/"

\* What holds of every state of the web app: AnalyticsPage only after the
\* initial check, for an admin; no <Navigate> left unfollowed; nothing
\* protected without a user.
AccessControlled ==
    platform = "web" =>
        /\ App = "AnalyticsPage" =>
               ~isLoading /\ user # <<>> /\ user[1].role = "admin" /\ path = "/analytics"
        /\ ~isLoading => Routes(path, user).kind = "page"
        /\ user = <<>> => App \notin ProtectedPages

\* What holds of every step of the web app: when the initial check ends on
\* /analytics the visitor lands where AnalyticsFor says, and logout leaves
\* no user, no token and no protected page.
AccessSteps ==
    platform = "web" =>
        /\ (isLoading /\ ~isLoading' /\ path = "/analytics") => path' = AnalyticsFor(user')
        /\ (aop' = "logout" /\ authCalls' # authCalls) =>
               user' = <<>> /\ token' = NULL /\ App' = "LoginPage"

C21_WitnessRedirected ==
    /\ platform = "web"
    /\ aop = "getMeResolves"
    /\ authCalls = 1
    /\ user = <<[id |-> 1, role |-> "user"]>>
    /\ App = "HomePage"

(***************************************************************************)
(* C27  Auth state invariant.                                              *)
(***************************************************************************)
\* C27: in every reachable state of the web and of the mobile AuthProvider,
\* if isAuthenticated is true (user is non-null) then a token is present in
\* persistent storage, the states between the steps of the asynchronous
\* mobile logout included.
C27_AuthenticatedHasToken == isAuthenticated(user) => token # NULL

\* The mobile logout between its two steps: removeToken has deleted the
\* key, setUser(null) has not run yet.
C27_Witness ==
    /\ platform = "mobile"
    /\ aop = "removeTokenDone"
    /\ \E f \in DOMAIN flows : flows[f].fn = "logout" /\ flows[f].pc = "removed"
    /\ isAuthenticated(user)
    /\ token = NULL

\* The same on the web, where logout is one step: a login that was under
\* way when the user logged out sets the user after the token is gone.
C27_WebAuthenticatedHasToken == platform = "web" => C27_AuthenticatedHasToken

(***************************************************************************)
(* C28  A failed login.                                                    *)
(***************************************************************************)
\* The step in which a run of login rejects: its POST /auth/login or its
\* GET /auth/me fails.
LoginRejects ==
    /\ aop' \in {"postFails", "getMeFails"}
    /\ \E f \in DOMAIN flows :
          /\ flows[f].fn \in {"login", "register"}
          /\ flows[f].pc \in {"post", "getMe"}
          /\ flows' = Ended(flows, f)

\* C28: if login() rejects, because POST /auth/login fails or because the
\* following GET /auth/me fails, then afterwards user is null, no token is
\* left in persistent storage and a request would carry no Authorization
\* header.
C28_FailedLoginLeavesNoSession ==
    [][LoginRejects => user' = <<>> /\ token' = NULL /\ Authorization(token') = ""]_vars

\* After a login whose GET /auth/me failed, the next POST /auth/login went
\* out with the token of the failed login in its Authorization header.
C28_Witness ==
    /\ aop = "login"
    /\ authCalls = 3
    /\ Len(flows) = 2
    /\ user = <<>>
    /\ token = "jwtNew"
    /\ lastRequest = [url |-> "/auth/login", authorization |-> "Bearer jwtNew"]

(***************************************************************************)
(* C22  Termination of the paged fetch.                                    *)
(***************************************************************************)
\* The number of events the backend held when call c started.
HeldAtStart(c) ==
    Len(store) - Len(creations)
    + Cardinality({k \in DOMAIN creations : creations[k].ncalls < c})

\* Nothing has been created while call c was under way.
Quiet(c) == \A k \in DOMAIN creations : c \notin creations[k].during

Awaiting == \E c \in DOMAIN calls : calls[c].st = "awaiting"

\* A call on a collection of n events that does not change issues at most
\* n div 100 + 1 requests, and exactly that many when it resolves; the last
\* page is then the rest of n, empty when n is a multiple of 100.
RequestsBounded ==
    \A c \in DOMAIN calls :
        Quiet(c) =>
            LET n  == HeldAtStart(c)
                rs == RequestsOf(c)
            IN  /\ Len(rs) <= n \div limit + 1
                /\ calls[c].st = "resolved" =>
                       /\ Len(rs) = n \div limit + 1
                       /\ rs[Len(rs)].size = n % limit
                       /\ Len(calls[c].allEvents) = n

\* C22: if every page request eventually completes and the backend holds a
\* finite collection of n events and honours skip and limit, a call of
\* getAllForAnalytics eventually resolves or rejects, after at most
\* floor(n/100) + 1 requests; when n is a multiple of 100 the last request
\* returns an empty page.
C22_FetchTerminates == []RequestsBounded /\ (Awaiting ~> ~Awaiting)

\* A collection of 200 events: the call has resolved after three requests,
\* the third answered with an empty page.
C22_Witness ==
    /\ Len(store) = 200
    /\ creations = <<>>
    /\ Len(calls) = 1
    /\ calls[1].st = "resolved"
    /\ SizesOf(1) = <<100, 100, 0>>

(***************************************************************************)
(* C23  Completeness of the paged fetch under concurrent writes.           *)
(***************************************************************************)
TimesIn(list, id) == Cardinality({k \in DOMAIN list : list[k] = id})

\* C23: the result of getAllForAnalytics holds every event that was on the
\* backend throughout the fetch exactly once, and no id twice, also when
\* other events are created on the backend between two page requests.
C23_CompleteUnderWrites ==
    \A c \in DOMAIN calls :
        calls[c].st = "resolved" =>
            /\ \A id \in 1..HeldAtStart(c) : TimesIn(calls[c].allEvents, id) = 1
            /\ \A k \in DOMAIN calls[c].allEvents :
                   TimesIn(calls[c].allEvents, calls[c].allEvents[k]) = 1

\* The backend lists newest first and held 100 events; one more was created
\* after the first page was answered: event 1 is in the result twice, as the
\* last of the first page and as the only event of the second.
C23_Witness ==
    /\ inserts = "front"
    /\ Len(store) = 101
    /\ Len(calls) = 1
    /\ calls[1].st = "resolved"
    /\ Len(events) = 101
    /\ events[100] = 1
    /\ events[101] = 1

\* The same claim for a backend that lists oldest first.
C23_CompleteOldestFirst == inserts = "back" => C23_CompleteUnderWrites

C25_NoDuplicateIds ==
    \A i, j \in DOMAIN homeEvents :
        i # j => homeEvents[i].id # homeEvents[j].id

\* One fetch, one message: the response held event 1, and the push that
\* announced event 1 arrived after it.
C25_Witness ==
    /\ Len(fetches) = 1
    /\ resolved = <<1>>
    /\ fetches[1].data = <<[id |-> 1, alert_code |-> "RED"]>>
    /\ delivered = 1
    /\ lastMessage = "{\"type\":\"new_event\",\"event\":{\"id\":1,\"alert_code\":\"RED\"}}"
    /\ homeEvents = <<[id |-> 1, alert_code |-> "RED"], [id |-> 1, alert_code |-> "RED"]>>

(***************************************************************************)
(* C26  The list of HomePage and the selected filter.                      *)
(***************************************************************************)
NoFetchInFlight == \A f \in DOMAIN fetches : fetches[f].st # "pending"

\* C26: whenever no fetch is in flight, every event in `events` of HomePage
\* has the alert_code selected in alertFilter, after any sequence of filter
\* changes, refreshes, fetch responses and pushes.
C26_FilterConsistent ==
    (platform = "web" /\ NoFetchInFlight) =>
        \A i \in DOMAIN homeEvents : Matches(homeEvents[i], AlertParam(alertFilter))

\* The filter is RED, its fetch has been answered, and a push has put an
\* ORANGE event in front of the list.
C26_Witness ==
    /\ alertFilter = "RED"
    /\ Len(fetches) = 1
    /\ resolved = <<1>>
    /\ delivered = 1
    /\ homeEvents = <<[id |-> 3, alert_code |-> "ORANGE"], [id |-> 1, alert_code |-> "RED"]>>

\* The same claim without the socket: a response to an earlier filter that
\* arrives last, or a failed fetch after a filter change, leaves events of
\* another alert_code in the list.
C26_FilterConsistentWithoutPushes == delivered = 0 => C26_FilterConsistent

(***************************************************************************)
(* Properties of the map picker of the mobile ReportScreen (SpecPicker).   *)
(***************************************************************************)
\* Two values of the state `SelectedLocation | null` are the same.
SameLocation(a, b) ==
    IF a = NULL THEN b = NULL ELSE IF b = NULL THEN FALSE ELSE a = b

\* The modal has just been closed with Cancel.
Cancelled == pop = "cancel" /\ ~showMapPicker

\* C29: pressing Cancel in the map-picker modal closes the modal and leaves
\* selectedLocation equal to what it was when the modal was opened, whatever
\* taps on the map happened in between; only Confirm Location commits a
\* tapped position as the location of the report.
C29_CancelKeepsLocation ==
    /\ pop = "cancel" => ~showMapPicker /\ SameLocation(selectedLocation, openedWith)
    /\ showMapPicker => SameLocation(selectedLocation, openedWith)

\* The modal was opened over one position, the map was tapped elsewhere and
\* Cancel was pressed: the tapped position is the location of the report.
C29_Witness ==
    /\ Cancelled
    /\ SameLocation(openedWith, DefaultPoint)
    /\ SameLocation(selectedLocation, <<0, 0>>)

(***************************************************************************)
(* The trend under the 7-day range (SpecStats).                            *)
(***************************************************************************)
\* The trend the statistics card prints is zero:
\* Math.abs(Number(stats.trend)) of 0 and of '0.0'.
TrendShownZero == shown.stats.trend \in {"0", "0.0"}

\* C30: when the selected range is '7d' and the filter and the statistics
\* are evaluated at the same clock reading, no displayed event lies in the
\* prior week and the displayed trend is 0, for every event collection; a
\* trend other than 0 is shown only under the ranges 30d, 90d and 'all'.
C30_SevenDayTrendZero ==
    (Rendered /\ shown.until = shown.at) =>
        LET E == shown.displayEvents
            P == Cardinality({i \in DOMAIN E : InPrevWeek(E[i], shown.at)})
        IN  /\ aggRange = "7d" => P = 0 /\ TrendShownZero
            /\ ~TrendShownZero => aggRange \in {"30d", "90d", "all"}

\* The range is '7d', the one fetched event lies in the prior week, which
\* alone would give a trend of -100, and the card shows 0.
C30_Witness ==
    /\ Rendered /\ shown.until = shown.at
    /\ aggRange = "7d"
    /\ Len(aggEvents) = 1
    /\ InPrevWeek(aggEvents[1], shown.at)
    /\ calculateStatistics(aggEvents, shown.at, shown.at).trend = "-100.0"
    /\ TrendShownZero

\* Under the range '30d' the same collection shows a trend other than 0.
C30_WitnessThirtyDays ==
    /\ Rendered /\ shown.until = shown.at
    /\ aggRange = "30d"
    /\ Len(aggEvents) = 1
    /\ shown.stats.trend = "-100.0"

=============================================================================
